---- MODULE Spec2Model ----
(***************************************************************************)
(* Ravelin: frames (POSE3), the relative-transform resolver                *)
(* (POSE3::calc_transform) and the static transform operators that apply   *)
(* it to frame-tagged quantities.                                          *)
(*                                                                         *)
(* Frames are heap objects addressed by boost::shared_ptr; a frame is      *)
(* modelled by its index 1..NumFrames and the absent pointer by Global.    *)
(* Pointer comparison (==, !=) is comparison of indices.                   *)
(*                                                                         *)
(* Numbers are exact.  A unit quaternion is modelled by a Hurwitz unit     *)
(* with every component doubled, so that the identity is <<2,0,0,0>> and   *)
(* the rotation by 120 degrees about (1,1,1) is <<1,1,1,1>>; the doubled   *)
(* units are closed under the quaternion product and rotate integer        *)
(* vectors to integer vectors.                                             *)
(***************************************************************************)
EXTENDS Integers, Sequences, FiniteSets, TLC

\* the number of frames a run constructs
NumFrames == 3

\* the longest vector handed to a batch operation
MaxBatch == 2

\* the absent (null) frame pointer: the global frame
Global == 0

VARIABLES
  q,        \* q[f]: POSE3::q of frame f (doubled unit quaternion)
  x,        \* x[f]: POSE3::x of frame f
  rpose,    \* rpose[f]: POSE3::rpose of frame f, a frame or Global
  NEXCEPT,  \* TRUE when the build defines NEXCEPT (frame checks compiled out)
  call      \* the last operation called, its arguments and its outcome

vars == <<q, x, rpose, NEXCEPT, call>>

-----------------------------------------------------------------------------
(* 3-vectors (ORIGIN3 / VECTOR3 components)                                *)

Zero3 == <<0, 0, 0>>

Add3(a, b) == <<a[1] + b[1], a[2] + b[2], a[3] + b[3]>>

Sub3(a, b) == <<a[1] - b[1], a[2] - b[2], a[3] - b[3]>>

Neg3(a) == <<-a[1], -a[2], -a[3]>>

Scale3(a, s) == <<a[1] * s, a[2] * s, a[3] * s>>

Cross3(a, b) ==
  <<a[2] * b[3] - a[3] * b[2], a[3] * b[1] - a[1] * b[3], a[1] * b[2] - a[2] * b[1]>>

-----------------------------------------------------------------------------
(* Quaternions (QUAT), components doubled: <<w, x, y, z>>                  *)

QuatIdentity == <<2, 0, 0, 0>>

\* QUAT::operator*(const QUAT&): the Hamilton product
QuatMul(a, b) ==
  << (a[1] * b[1] - a[2] * b[2] - a[3] * b[3] - a[4] * b[4]) \div 2,
     (a[1] * b[2] + a[2] * b[1] + a[3] * b[4] - a[4] * b[3]) \div 2,
     (a[1] * b[3] - a[2] * b[4] + a[3] * b[1] + a[4] * b[2]) \div 2,
     (a[1] * b[4] + a[2] * b[3] - a[3] * b[2] + a[4] * b[1]) \div 2 >>

\* QUAT::invert(const QUAT&): for a unit quaternion, the conjugate
QuatInvert(a) == <<a[1], -a[2], -a[3], -a[4]>>

\* QUAT::operator*(const ORIGIN3&): rotates the vector, q v q^-1
QuatRotate(a, v) ==
  LET p == QuatMul(QuatMul(a, <<0, 2 * v[1], 2 * v[2], 2 * v[3]>>), QuatInvert(a))
  IN  <<p[2] \div 2, p[3] \div 2, p[4] \div 2>>

\* QUAT::normalize(const QUAT&): a unit quaternion is its own normalization
QuatNormalize(a) == a

\* two quaternions that are the same rotation (a and -a rotate alike)
SameRotation(a, b) == a = b \/ a = <<-b[1], -b[2], -b[3], -b[4]>>

\* MATRIX3 values are <<row1, row2, row3>>
MatRow(m, v) == <<m[1][1] * v[1] + m[1][2] * v[2] + m[1][3] * v[3],
                  m[2][1] * v[1] + m[2][2] * v[2] + m[2][3] * v[3],
                  m[3][1] * v[1] + m[3][2] * v[2] + m[3][3] * v[3]>>

\* MATRIX3::operator*(const VECTOR3&)
MatVec(m, v) == MatRow(m, v)

\* MATRIX3::transpose
MatT(m) == << <<m[1][1], m[2][1], m[3][1]>>,
              <<m[1][2], m[2][2], m[3][2]>>,
              <<m[1][3], m[2][3], m[3][3]>> >>

\* MATRIX3::operator*(const MATRIX3&): the columns of b, each multiplied by a
MatMul(a, b) == LET bt == MatT(b) IN
  MatT(<<MatRow(a, bt[1]), MatRow(a, bt[2]), MatRow(a, bt[3])>>)

MatAdd(a, b) == <<Add3(a[1], b[1]), Add3(a[2], b[2]), Add3(a[3], b[3])>>

MatSub(a, b) == <<Sub3(a[1], b[1]), Sub3(a[2], b[2]), Sub3(a[3], b[3])>>

\* MATRIX3::skew_symmetric(v): the matrix of the cross product v x .
Skew(v) == << <<0, -v[3], v[2]>>, <<v[3], 0, -v[1]>>, <<-v[2], v[1], 0>> >>

\* MATRIX3::operator=(const QUAT&): the rotation matrix of a quaternion; its
\* columns are the rotated unit vectors
QuatToMat(a) ==
  MatT(<<QuatRotate(a, <<1, 0, 0>>), QuatRotate(a, <<0, 1, 0>>), QuatRotate(a, <<0, 0, 1>>)>>)

\* the rotations and translations frames are constructed from
QI == QuatIdentity
QA == <<1, 1, 1, 1>>
QB == <<0, 2, 0, 0>>

CtorArgs ==
  { <<QI, <<1, 0, 0>>>>, <<QA, <<0, 1, 0>>>>, <<QB, <<0, 0, 1>>>> }

-----------------------------------------------------------------------------
(* The frame forest                                                        *)

\* the frames constructed so far
Live == 1..Len(rpose)

\* the frame references a caller can hold: a live frame or the absent one
Refs == Live \cup {Global}

\* the outcomes of executing assert(r); r = r->rpose with r absent:
\* the assertion aborts the process, or (NDEBUG) the absent pointer is read
NoCommonOutcomes == {"assert_failed", "null_deref"}

\* a TRANSFORM3 value together with how the call ended; links counts the
\* rpose fields the call read
Tx(status, source, target, tq, tx, links) ==
  [status |-> status, source |-> source, target |-> target,
   q |-> tq, x |-> tx, links |-> links]

\* POSE3::is_common: is p on the chain of x, and how far down.  The loop
\* reads only x, so a walk longer than the number of frames has met a frame
\* twice and never ends: hang.
RECURSIVE is_common_from(_, _, _, _)
is_common_from(xf, p, i, fuel) ==
  IF xf = Global THEN [found |-> FALSE, i |-> i, hang |-> FALSE]
  ELSE IF xf = p THEN [found |-> TRUE, i |-> i, hang |-> FALSE]
  ELSE IF fuel = 0 THEN [found |-> FALSE, i |-> i, hang |-> TRUE]
  ELSE is_common_from(rpose[xf], p, i + 1, fuel - 1)

is_common(xf, p) == is_common_from(xf, p, 0, Len(rpose))

\* the loop of the to-global and from-global cases: compose the parents of
\* s onto (aq, ax) until the frame without parent
RECURSIVE walk_to_root(_, _, _, _, _)
walk_to_root(s, aq, ax, n, fuel) ==
  LET p == rpose[s] IN
  IF p = Global THEN [hang |-> FALSE, q |-> aq, x |-> ax, links |-> n + 1]
  ELSE IF fuel = 0 THEN [hang |-> TRUE, q |-> aq, x |-> ax, links |-> n + 1]
  ELSE walk_to_root(p, QuatMul(q[p], aq), Add3(x[p], QuatRotate(q[p], ax)),
                    n + 1, fuel - 1)

\* the search for the common link: r runs outward from target
RECURSIVE search_common(_, _, _, _)
search_common(source, r, n, fuel) ==
  LET ic == is_common(source, r) IN
  IF ic.hang THEN [end |-> "hang", r |-> r, i |-> ic.i, links |-> n]
  ELSE IF ic.found THEN [end |-> "found", r |-> r, i |-> ic.i, links |-> n + ic.i]
  ELSE IF r = Global THEN [end |-> "absent", r |-> r, i |-> ic.i, links |-> n + ic.i]
  ELSE IF fuel = 0 THEN [end |-> "hang", r |-> r, i |-> ic.i, links |-> n]
  ELSE search_common(source, rpose[r], n + ic.i + 1, fuel - 1)

\* the left walk: i links up from source
RECURSIVE walk_links(_, _, _, _)
walk_links(s, aq, ax, i) ==
  IF i = 0 THEN [q |-> aq, x |-> ax]
  ELSE LET p == rpose[s] IN
       walk_links(p, QuatMul(q[p], aq), Add3(x[p], QuatRotate(q[p], ax)), i - 1)

\* the right walk cut short: nothing when target is r, and target's own pose
\* when target is below r
walk_until_below_r(t, r, aq, ax, n) ==
  IF t = r THEN [q |-> QuatIdentity, x |-> Zero3, links |-> n]
  ELSE [q |-> aq, x |-> ax, links |-> n]

\* the right walk: from target up to and including r
RECURSIVE walk_until(_, _, _, _, _)
walk_until(t, r, aq, ax, n) ==
  IF t = r THEN [q |-> aq, x |-> ax, links |-> n]
  ELSE LET p == rpose[t] IN
       walk_until(p, r, QuatMul(q[p], aq), Add3(x[p], QuatRotate(q[p], ax)), n + 1)

\* calc_transform, the test of the first special case (source == target),
\* passing only for two absent frames
same_frame_absent_only(source, target) == source = target /\ source = Global

\* calc_transform, "check for special case: no transformation"
same_frame(source, target) == source = target

\* the transformation to the global frame taken from source alone, its
\* ancestors left out
to_global_own_pose_only(source, target) ==
  Tx("ok", source, target, q[source], x[source], 1)

\* calc_transform, "transformation to global frame"
to_global(source, target) ==
  LET w == walk_to_root(source, q[source], x[source], 0, Len(rpose)) IN
  Tx(IF w.hang THEN "hang" ELSE "ok", source, target, w.q, w.x, w.links)

\* the transformation from the global frame with the translation negated but
\* not rotated
from_global_translation_unrotated(source, target) ==
  LET w == walk_to_root(target, q[target], x[target], 0, Len(rpose)) IN
  Tx(IF w.hang THEN "hang" ELSE "ok", source, target, QuatInvert(w.q), Neg3(w.x), w.links)

\* calc_transform, "transformation from global frame"
from_global(source, target) ==
  LET w    == walk_to_root(target, q[target], x[target], 0, Len(rpose))
      invq == QuatInvert(w.q)
  IN  Tx(IF w.hang THEN "hang" ELSE "ok", source, target,
         invq, QuatRotate(invq, Neg3(w.x)), w.links)

\* the sibling case with the two translations subtracted the other way round
sibling_target_minus_source(source, target) ==
  LET rq == QuatMul(QuatInvert(q[target]), q[source]) IN
  Tx("ok", source, target, rq, QuatRotate(rq, Sub3(x[target], x[source])), 2)

\* calc_transform, "both transforms are defined relative to the same frame"
sibling(source, target) ==
  LET rq == QuatMul(QuatInvert(q[target]), q[source]) IN
  Tx("ok", source, target, rq, QuatRotate(rq, Sub3(x[source], x[target])), 2)

\* calc_transform, the general case: search for the common link, then
\* combine the left and the right walk.  ub is the outcome the build gives
\* to the step assert(r); r = r->rpose when r is absent.
general(source, target, ub) ==
  LET c == search_common(source, target, 2, Len(rpose)) IN
  IF c.end = "hang" THEN Tx("hang", source, target, QuatIdentity, Zero3, c.links)
  ELSE IF c.end = "absent" THEN Tx(ub, source, target, QuatIdentity, Zero3, c.links)
  ELSE LET left  == walk_links(source, q[source], x[source], c.i)
           right == walk_until(target, c.r, q[target], x[target], 0)
           invq  == QuatInvert(right.q)
       IN  Tx("ok", source, target, QuatMul(invq, left.q),
              QuatRotate(invq, Sub3(left.x, right.x)),
              c.links + c.i + right.links)

\* POSE3::calc_transform(source, target)
calc_transform(source, target, ub) ==
  IF same_frame(source, target)
  THEN Tx("ok", source, target, QuatIdentity, Zero3, 0)
  ELSE IF target = Global THEN to_global(source, target)
  ELSE IF source = Global THEN from_global(source, target)
  ELSE IF rpose[source] = rpose[target] THEN sibling(source, target)
  ELSE general(source, target, ub)

\* a forest in which every chain of rpose links ends at the absent frame
RECURSIVE ReachesGlobal(_, _)
ReachesGlobal(f, n) == f = Global \/ (n > 0 /\ ReachesGlobal(rpose[f], n - 1))

Acyclic == \A f \in Live : ReachesGlobal(f, Len(rpose))

\* the frames on the chain of f: f, its parent, and so on
RECURSIVE ChainFrom(_, _)
ChainFrom(f, n) ==
  IF f = Global \/ n = 0 THEN {} ELSE {f} \cup ChainFrom(rpose[f], n - 1)

Chain(f) == ChainFrom(f, Len(rpose))

-----------------------------------------------------------------------------
(* Frame-tagged quantities and the static transforms                       *)
(* A quantity is a record whose field pose is its frame tag.               *)

Vector(pose, v) == [pose |-> pose, v |-> v]

Point(pose, v) == [pose |-> pose, v |-> v]

\* WRENCH(force, torque) and TWIST(angular, linear): upper and lower part
SVec(pose, top, bottom) == [pose |-> pose, top |-> top, bottom |-> bottom]

RBInertia(pose, m, h, J) == [pose |-> pose, m |-> m, h |-> h, J |-> J]

ABInertia(pose, M, H, J) == [pose |-> pose, M |-> M, H |-> H, J |-> J]

\* how an operation ends: with a value, or with an exception or an abort
Returned(val) == [status |-> "ok", val |-> val]

Failed(status) == [status |-> status, val |-> <<>>]

\* two frame references with the same rotation, translation and parent
same_pose_value(a, b) ==
  \/ a = b
  \/ a # Global /\ b # Global /\ q[a] = q[b] /\ x[a] = x[b] /\ rpose[a] = rpose[b]

\* the frame check comparing the frames' values instead of the references
frame_mismatch_by_value(source, pose) == ~NEXCEPT /\ ~same_pose_value(source, pose)

\* #ifndef NEXCEPT  if (source != v.pose) throw FrameException();
frame_mismatch(source, pose) == ~NEXCEPT /\ source # pose

\* TRANSFORM3::transform(const VECTOR3&)
Tx_transform_vector(T, v) == Vector(T.target, QuatRotate(T.q, v.v))

\* TRANSFORM3::transform(const POINT3&)
Tx_transform_point(T, pt) == Point(T.target, Add3(QuatRotate(T.q, pt.v), T.x))

\* the result of a static transform left with the tag of the source frame
tag_of_source(T) == T.source

\* result.pose = boost::const_pointer_cast<POSE3>(target)
tag_of_result(T) == T.target

\* the body shared by the static transforms of a wrench and of a twist,
\* with r = Tx.x and E = Tx.q
spatial_apply(T, v) ==
  LET r     == T.x
      E     == QuatToMat(T.q)
      Etop  == MatVec(E, v.top)
      cross == Cross3(r, Etop)
  IN  SVec(tag_of_result(T), Etop, Sub3(MatVec(E, v.bottom), cross))

\* the inertia transform that leaves the mass of the result unset (zero)
rb_inertia_apply_mass_unset(T, J) ==
  LET r  == T.x
      E  == QuatToMat(T.q)
      mr == Scale3(r, J.m)
  IN  RBInertia(tag_of_result(T), 0, Sub3(MatVec(E, J.h), mr), J.J)

\* the body of the static transform of a rigid body inertia; the instance
\* transform and inverse_transform have the same body with their own r and E
rb_inertia_apply(T, J) ==
  LET r       == T.x
      E       == QuatToMat(T.q)
      ET      == MatT(E)
      mr      == Scale3(r, J.m)
      rx      == Skew(r)
      hx      == Skew(J.h)
      mrxrx   == MatMul(rx, Skew(mr))
      EhxETrx == MatMul(MatMul(MatMul(E, hx), ET), rx)
  IN  RBInertia(tag_of_result(T), J.m,
                Sub3(MatVec(E, J.h), mr),
                MatSub(MatAdd(MatAdd(EhxETrx, MatT(EhxETrx)),
                              MatMul(MatMul(E, J.J), ET)), mrxrx))

\* the body of the static transform of an articulated body inertia
ab_inertia_apply(T, m) ==
  LET r          == T.x
      E          == QuatToMat(T.q)
      ET         == MatT(E)
      rx         == Skew(r)
      HT         == MatT(m.H)
      EJET       == MatMul(MatMul(E, m.J), ET)
      rx_E_HT_ET == MatMul(MatMul(MatMul(rx, E), HT), ET)
      EHET       == MatMul(MatMul(E, m.H), ET)
      EMET       == MatMul(MatMul(E, m.M), ET)
      rxEMET     == MatMul(rx, EMET)
  IN  ABInertia(tag_of_result(T), EMET, MatSub(EHET, rxEMET),
                MatAdd(MatSub(EJET, rx_E_HT_ET), MatMul(MatSub(EHET, rxEMET), rx)))

\* a static transform: the frame check, the resolver, then the body
static_transform(source, target, v, ub, body(_, _)) ==
  IF frame_mismatch(source, v.pose) THEN Failed("FrameException")
  ELSE LET T == calc_transform(source, target, ub) IN
       IF T.status # "ok" THEN Failed(T.status) ELSE Returned(body(T, v))

\* POSE3::transform(source, target, const VECTOR3&)
transform_vector(source, target, v, ub) ==
  static_transform(source, target, v, ub, Tx_transform_vector)

\* POSE3::transform(source, target, const POINT3&)
transform_point(source, target, pt, ub) ==
  static_transform(source, target, pt, ub, Tx_transform_point)

\* POSE3::transform(source, target, const WRENCH&)
transform_wrench(source, target, w, ub) ==
  static_transform(source, target, w, ub, spatial_apply)

\* POSE3::transform(source, target, const TWIST&)
transform_twist(source, target, t, ub) ==
  static_transform(source, target, t, ub, spatial_apply)

\* POSE3::transform(source, target, const SPATIAL_RB_INERTIA&)
transform_rb_inertia(source, target, J, ub) ==
  static_transform(source, target, J, ub, rb_inertia_apply)

\* POSE3::transform(source, target, const SPATIAL_AB_INERTIA&)
transform_ab_inertia(source, target, m, ub) ==
  static_transform(source, target, m, ub, ab_inertia_apply)

\* the batch outcome: result is the caller's result vector after the call,
\* resolved tells whether the resolver was called
Batch(status, result, resolved) ==
  [status |-> status, result |-> result, resolved |-> resolved]

RECURSIVE MapSeq(_, _, _)
MapSeq(body(_, _), T, w) ==
  IF w = <<>> THEN <<>> ELSE <<body(T, Head(w))>> \o MapSeq(body, T, Tail(w))

\* the frame check of a batch, its loop starting at the second element
batch_mismatch_from_second(source, w) ==
  ~NEXCEPT /\ \E i \in 2..Len(w) : source # w[i].pose

\* for (unsigned i=0; i< w.size(); i++) if (source != w[i].pose) throw
batch_mismatch(source, w) ==
  ~NEXCEPT /\ \E i \in 1..Len(w) : source # w[i].pose

\* the batch that appends to result: no clear() for an empty input, no
\* resize() otherwise
transform_batch_appending(source, target, w, result, ub) ==
  IF w = <<>> THEN Batch("ok", result, FALSE)
  ELSE IF batch_mismatch(source, w) THEN Batch("FrameException", result, FALSE)
  ELSE LET T == calc_transform(source, target, ub) IN
       IF T.status # "ok" THEN Batch(T.status, result, TRUE)
       ELSE Batch("ok", result \o MapSeq(spatial_apply, T, w), TRUE)

\* POSE3::transform(source, target, const std::vector<WRENCH>&, result) and
\* POSE3::transform(source, target, const std::vector<TWIST>&, result)
transform_batch(source, target, w, result, ub) ==
  IF w = <<>> THEN Batch("ok", <<>>, FALSE)
  ELSE IF batch_mismatch(source, w) THEN Batch("FrameException", result, FALSE)
  ELSE LET T == calc_transform(source, target, ub) IN
       IF T.status # "ok" THEN Batch(T.status, result, TRUE)
       ELSE Batch("ok", MapSeq(spatial_apply, T, w), TRUE)

\* get_r_E(const TRANSFORM3&, r, E) of the spatial arithmetic
accel_r(T) == MatVec(MatT(QuatToMat(T.q)), Neg3(T.x))

\* SPARITH::transform_accel(target, w, r, E, result), r and E taken from T
accel_apply(T, w) ==
  LET r     == accel_r(T)
      E     == QuatToMat(T.q)
      Etop  == MatVec(E, w.top)
      cross == Cross3(r, w.top)
  IN  SVec(T.target, Etop, MatVec(E, Sub3(w.bottom, cross)))

\* for (unsigned i=1; i< t.size(); i++) if (source != t[i].pose) throw,
\* with source = t[0].pose
accel_mismatch(t) == ~NEXCEPT /\ \E i \in 2..Len(t) : t[1].pose # t[i].pose

\* POSE3::calc_relative_pose(source, target): the resolver
calc_relative_pose(source, target, ub) == calc_transform(source, target, ub)

\* SPARITH::transform_accel(target, const std::vector<SACCEL>&, result)
transform_accel_batch(target, t, result, ub) ==
  IF t = <<>> THEN Batch("ok", <<>>, FALSE)
  ELSE IF accel_mismatch(t) THEN Batch("FrameException", result, FALSE)
  ELSE IF t[1].pose = target THEN Batch("ok", t, FALSE)
  ELSE LET T == calc_relative_pose(t[1].pose, target, ub) IN
       IF T.status # "ok" THEN Batch(T.status, result, TRUE)
       ELSE Batch("ok", MapSeq(accel_apply, T, t), TRUE)

-----------------------------------------------------------------------------
(* Operations on the forest                                                *)

NoCall == [op |-> "none", args |-> <<>>, out |-> <<>>]

Init ==
  /\ q = <<>>
  /\ x = <<>>
  /\ rpose = <<>>
  /\ NEXCEPT = FALSE
  /\ call = NoCall

\* The library is single threaded: an operation starts when the one before
\* it has returned and its caller has taken the outcome.
Idle == call = NoCall

\* POSE3(const QUAT& q, const ORIGIN3& v, shared_ptr<POSE3> relative_pose)
Construct(qa, xa, parent) ==
  /\ Idle
  /\ Len(rpose) < NumFrames
  /\ q' = Append(q, QuatNormalize(qa))
  /\ x' = Append(x, xa)
  /\ rpose' = Append(rpose, parent)
  /\ call' = NoCall
  /\ UNCHANGED NEXCEPT

\* POSE3::operator=: *f = *p
Assign(f, p) ==
  /\ Idle
  /\ q' = [q EXCEPT ![f] = q[p]]
  /\ x' = [x EXCEPT ![f] = x[p]]
  /\ rpose' = [rpose EXCEPT ![f] = rpose[p]]
  /\ call' = NoCall
  /\ UNCHANGED NEXCEPT

\* the caller holds a value: a quantity it constructed, or the Transform the
\* last call of calc_transform returned
HoldsQuantity == call.op = "hold"

HoldsTransform == call.op = "calc_transform"

\* the reparenting that also resets the rotation and translation of f
ReparentResetting(f, p) ==
  /\ Idle \/ HoldsQuantity \/ HoldsTransform
  /\ rpose' = [rpose EXCEPT ![f] = p]
  /\ q' = [q EXCEPT ![f] = QuatIdentity]
  /\ x' = [x EXCEPT ![f] = Zero3]
  /\ UNCHANGED <<NEXCEPT, call>>

\* f->rpose = p; what the caller holds stays with the caller
Reparent(f, p) ==
  /\ Idle \/ HoldsQuantity \/ HoldsTransform
  /\ rpose' = [rpose EXCEPT ![f] = p]
  /\ UNCHANGED <<q, x, NEXCEPT, call>>

\* calls made one after the other are numbered 1, 2, 1, ... so that the
\* Transform a call returns is told from the equal one held from the call
\* before it
NthCall == IF HoldsTransform THEN 3 - call.nth ELSE 1

\* the resolver that hands out the Transform the caller still holds when it
\* is asked for the same two frames again
CalcTransformCached(source, target, ub) ==
  /\ Idle \/ HoldsTransform
  /\ call' = [op |-> "calc_transform", args |-> <<source, target>>, nth |-> NthCall,
              out |-> IF HoldsTransform /\ call.args = <<source, target>>
                      THEN call.out ELSE calc_transform(source, target, ub)]
  /\ UNCHANGED <<q, x, rpose, NEXCEPT>>

\* a call of POSE3::calc_transform(source, target); the Transform of the call
\* before it may still be held
CalcTransform(source, target, ub) ==
  /\ Idle \/ HoldsTransform
  /\ call' = [op |-> "calc_transform", args |-> <<source, target>>, nth |-> NthCall,
              out |-> calc_transform(source, target, ub)]
  /\ UNCHANGED <<q, x, rpose, NEXCEPT>>

\* the caller takes the outcome of the last operation; a returned value is a
\* temporary and nothing of it stays behind
Return ==
  /\ ~Idle
  /\ call' = NoCall
  /\ UNCHANGED <<q, x, rpose, NEXCEPT>>

DoConstruct == Idle /\ \E a \in CtorArgs, parent \in Refs : Construct(a[1], a[2], parent)

DoAssign == Idle /\ \E f \in Live, p \in Live : Assign(f, p)

DoReparent == Idle /\ \E f \in Live, p \in Refs : Reparent(f, p)

DoCalcTransform ==
  /\ Idle
  /\ \E source \in Refs, target \in Refs, ub \in NoCommonOutcomes :
       CalcTransform(source, target, ub)

Next == DoConstruct \/ DoAssign \/ DoReparent \/ DoCalcTransform \/ Return

Spec == Init /\ [][Next]_vars

-----------------------------------------------------------------------------
(* Calls of the static transforms                                          *)

\* the components the transformed quantities are drawn from
VectorsIn == { <<1, 2, 3>> }

PointsIn == { <<0, 0, 0>>, <<1, 2, 3>> }

SVecsIn == { [top |-> <<1, 0, 0>>, bottom |-> <<0, 1, 2>>] }

RBInertiasIn ==
  { [m |-> 2, h |-> <<1, 0, 2>>, J |-> << <<3, 0, 0>>, <<0, 4, 1>>, <<0, 1, 5>> >>] }

ABInertiasIn ==
  { [M |-> << <<2, 0, 0>>, <<0, 2, 0>>, <<0, 0, 2>> >>,
     H |-> << <<0, -1, 0>>, <<1, 0, 3>>, <<0, -3, 0>> >>,
     J |-> << <<3, 0, 0>>, <<0, 4, 1>>, <<0, 1, 5>> >>] }

\* the forests the transforms are called on: every frame constructed with a
\* frame constructed before it, or none, as parent; either all frames with
\* the same rotation and translation, or each with the next of CtorSeq, or
\* all unrotated and each with a translation of its own
CtorSeq == << <<QA, <<0, 1, 0>>>>, <<QI, <<1, 0, 0>>>>, <<QB, <<0, 0, 1>>>> >>

Flavours == {"uniform", "cyclic", "unrotated"}

\* POSE3(const ORIGIN3& v, relative_pose): frame f on the axis f, the axes
\* taken in turn
UnrotatedOf(f) ==
  LET k == ((f - 1) \div 3) + 1 IN
  <<QuatIdentity, <<IF f % 3 = 1 THEN k ELSE 0, IF f % 3 = 2 THEN k ELSE 0,
                    IF f % 3 = 0 THEN k ELSE 0>> >>

CtorOf(flavour, f) ==
  IF flavour = "uniform" THEN CtorSeq[1]
  ELSE IF flavour = "cyclic" THEN CtorSeq[(f % Len(CtorSeq)) + 1]
  ELSE UnrotatedOf(f)

ParentsBelow == { p \in [1..NumFrames -> 0..NumFrames] : \A f \in 1..NumFrames : p[f] < f }

RECURSIVE SeqOf(_, _)
SeqOf(f, n) == IF n = 0 THEN <<>> ELSE Append(SeqOf(f, n - 1), f[n])

\* both builds: with the frame checks and with NEXCEPT defined
InitApply ==
  \E p \in ParentsBelow, flavour \in {"uniform", "cyclic"} :
    /\ q = SeqOf([f \in 1..NumFrames |-> QuatNormalize(CtorOf(flavour, f)[1])], NumFrames)
    /\ x = SeqOf([f \in 1..NumFrames |-> CtorOf(flavour, f)[2]], NumFrames)
    /\ rpose = SeqOf(p, NumFrames)
    /\ NEXCEPT \in BOOLEAN
    /\ call = NoCall

\* the operation op was called with args and ended with out; the forest is
\* as the operation leaves it
Called(op, args, out) ==
  /\ Idle
  /\ call' = [op |-> op, args |-> args, out |-> out]
  /\ UNCHANGED <<q, x, rpose, NEXCEPT>>

TransformVector(source, target, v, ub) ==
  Called("transform_vector", <<source, target, v>>, transform_vector(source, target, v, ub))

TransformPoint(source, target, pt, ub) ==
  Called("transform_point", <<source, target, pt>>, transform_point(source, target, pt, ub))

TransformWrench(source, target, w, ub) ==
  Called("transform_wrench", <<source, target, w>>, transform_wrench(source, target, w, ub))

TransformTwist(source, target, t, ub) ==
  Called("transform_twist", <<source, target, t>>, transform_twist(source, target, t, ub))

TransformRBInertia(source, target, J, ub) ==
  Called("transform_rb_inertia", <<source, target, J>>,
         transform_rb_inertia(source, target, J, ub))

TransformABInertia(source, target, m, ub) ==
  Called("transform_ab_inertia", <<source, target, m>>,
         transform_ab_inertia(source, target, m, ub))

DoTransformVector ==
  /\ Idle
  /\ \E source \in Refs, target \in Refs, pose \in Refs, v \in VectorsIn,
        ub \in NoCommonOutcomes :
       TransformVector(source, target, Vector(pose, v), ub)

DoTransformPoint ==
  /\ Idle
  /\ \E source \in Refs, target \in Refs, pose \in Refs, v \in PointsIn,
        ub \in NoCommonOutcomes :
       TransformPoint(source, target, Point(pose, v), ub)

DoTransformWrench ==
  /\ Idle
  /\ \E source \in Refs, target \in Refs, pose \in Refs, v \in SVecsIn,
        ub \in NoCommonOutcomes :
       TransformWrench(source, target, SVec(pose, v.top, v.bottom), ub)

DoTransformTwist ==
  /\ Idle
  /\ \E source \in Refs, target \in Refs, pose \in Refs, v \in SVecsIn,
        ub \in NoCommonOutcomes :
       TransformTwist(source, target, SVec(pose, v.top, v.bottom), ub)

DoTransformRBInertia ==
  /\ Idle
  /\ \E source \in Refs, target \in Refs, pose \in Refs, v \in RBInertiasIn,
        ub \in NoCommonOutcomes :
       TransformRBInertia(source, target, RBInertia(pose, v.m, v.h, v.J), ub)

DoTransformABInertia ==
  /\ Idle
  /\ \E source \in Refs, target \in Refs, pose \in Refs, v \in ABInertiasIn,
        ub \in NoCommonOutcomes :
       TransformABInertia(source, target, ABInertia(pose, v.M, v.H, v.J), ub)

\* the vectors handed to the batch operations: n elements tagged base, but
\* for element k (if any) which is tagged other
ElemAt(i) == [top |-> <<i, 0, 1>>, bottom |-> <<0, i, 2>>]

RECURSIVE BatchOf(_, _, _, _)
BatchOf(n, base, k, other) ==
  IF n = 0 THEN <<>>
  ELSE Append(BatchOf(n - 1, base, k, other),
              SVec(IF n = k THEN other ELSE base, ElemAt(n).top, ElemAt(n).bottom))

\* what the caller's result vector holds before a batch call
ResultsIn == { <<>>, <<SVec(Global, <<9, 9, 9>>, <<9, 9, 9>>)>> }

TransformWrenches(source, target, w, result, ub) ==
  Called("transform_wrenches", <<source, target, w, result>>,
         transform_batch(source, target, w, result, ub))

TransformTwists(source, target, t, result, ub) ==
  Called("transform_twists", <<source, target, t, result>>,
         transform_batch(source, target, t, result, ub))

TransformAccels(target, t, result, ub) ==
  Called("transform_accels", <<target, t, result>>,
         transform_accel_batch(target, t, result, ub))

DoTransformWrenches ==
  /\ Idle
  /\ \E source \in Refs, target \in Refs, n \in 0..MaxBatch, result \in ResultsIn,
        ub \in NoCommonOutcomes :
       \E k \in 0..n, other \in Refs :
         TransformWrenches(source, target, BatchOf(n, source, k, other), result, ub)

DoTransformTwists ==
  /\ Idle
  /\ \E source \in Refs, target \in Refs, n \in 0..MaxBatch, result \in ResultsIn,
        ub \in NoCommonOutcomes :
       \E k \in 0..n, other \in Refs :
         TransformTwists(source, target, BatchOf(n, source, k, other), result, ub)

DoTransformAccels ==
  /\ Idle
  /\ \E base \in Refs, target \in Refs, n \in 0..MaxBatch, result \in ResultsIn,
        ub \in NoCommonOutcomes :
       \E k \in 0..n, other \in Refs :
         TransformAccels(target, BatchOf(n, base, k, other), result, ub)

NextApply ==
  \/ DoTransformVector
  \/ DoTransformPoint
  \/ DoTransformWrench
  \/ DoTransformTwist
  \/ DoTransformRBInertia
  \/ DoTransformABInertia
  \/ DoTransformWrenches
  \/ DoTransformTwists
  \/ DoTransformAccels
  \/ Return

SpecApply == InitApply /\ [][NextApply]_vars

-----------------------------------------------------------------------------
(* The static transforms: properties                                       *)

StaticOps ==
  { "transform_vector", "transform_point", "transform_wrench", "transform_twist",
    "transform_rb_inertia", "transform_ab_inertia" }

BatchOps == { "transform_wrenches", "transform_twists" }

IsStatic == call.op \in StaticOps

\* C2: round trip.  For frames A and B and a point pt tagged B,
\* transform(A, B, transform(B, A, pt)) has the components of pt and the tag
\* B.  Stated for the calls transform(B, A, pt) that return.
C2_RoundTrip ==
  (call.op = "transform_point" /\ call.out.status = "ok"
     /\ call.args[3].pose = call.args[1]) =>
    LET B    == call.args[1]
        A    == call.args[2]
        back == transform_point(A, B, call.out.val, "assert_failed")
    IN  back.status = "ok" /\ back.val = call.args[3]

\* C3: composability.  For frames A, B, C whose three resolutions succeed
\* and a point pt tagged A, transform(B, C, transform(A, B, pt)) equals
\* transform(A, C, pt) in components and tag.
C3_Composable ==
  (call.op = "transform_point" /\ call.out.status = "ok"
     /\ call.args[3].pose = call.args[1]) =>
    \A C \in Refs :
      LET A      == call.args[1]
          B      == call.args[2]
          viaB   == transform_point(B, C, call.out.val, "assert_failed")
          direct == transform_point(A, C, call.args[3], "assert_failed")
      IN  (viaB.status = "ok" /\ direct.status = "ok") => viaB.val = direct.val

\* the batch was handed an element whose tag is not the reference frame: the
\* source frame, or for transform_accel the frame of element 0
BatchHasMismatch ==
  \/ /\ call.op \in BatchOps
     /\ \E i \in 1..Len(call.args[3]) : call.args[3][i].pose # call.args[1]
  \/ /\ call.op = "transform_accels"
     /\ \E i \in 1..Len(call.args[2]) : call.args[2][i].pose # call.args[2][1].pose

\* the caller's result vector before the batch call
ResultBefore == IF call.op = "transform_accels" THEN call.args[3] ELSE call.args[4]

\* the call failed with FrameException before the transform was resolved and
\* the result vector is as it was
FailedUntouched ==
  /\ call.out.status = "FrameException"
  /\ ~call.out.resolved
  /\ call.out.result = ResultBefore

\* C8 as stated: a batch with an element whose tag is not the reference
\* frame fails with FrameException before the transform is resolved, and the
\* caller's result vector is as before the call.
C8_BatchAllOrNothing == BatchHasMismatch => FailedUntouched

\* C8 as amended: the same, in a build with the frame checks (NEXCEPT not
\* defined).
C8_GuardedBatchAllOrNothing == (BatchHasMismatch /\ ~NEXCEPT) => FailedUntouched

\* a batch of wrenches whose last element alone has another tag has failed,
\* the caller's result vector holding an element of an earlier call
C8_Witness ==
  /\ call.op = "transform_wrenches"
  /\ ~NEXCEPT
  /\ Len(call.args[3]) = MaxBatch
  /\ \A i \in 1..(MaxBatch - 1) : call.args[3][i].pose = call.args[1]
  /\ call.args[3][MaxBatch].pose # call.args[1]
  /\ call.args[4] # <<>>
  /\ call.out.status = "FrameException"

\* C9: with the frame checks compiled in, a static transform of any of the
\* six shapes fails with FrameException and returns no value exactly when
\* the tag of the quantity is another reference than source, whatever the
\* values of the two frames.
C9_GuardByIdentity ==
  (IsStatic /\ ~NEXCEPT) =>
    /\ call.out.status = "FrameException" <=> call.args[3].pose # call.args[1]
    /\ call.out.status = "FrameException" => call.out.val = <<>>

\* a static transform has failed on a quantity tagged with a frame that has
\* the rotation, translation and parent of source but is another frame
C9_Witness ==
  /\ call.op = "transform_ab_inertia"
  /\ ~NEXCEPT
  /\ call.args[1] # Global
  /\ call.args[3].pose # Global
  /\ call.args[3].pose # call.args[1]
  /\ same_pose_value(call.args[3].pose, call.args[1])
  /\ call.out.status = "FrameException"

\* C10: every static transform that succeeds, the batch forms element by
\* element included, returns values tagged target, and no call of a static
\* transform changes a frame's rotation, translation or parent.
C10_ResultTaggedTarget ==
  [][ /\ (call'.op \in StaticOps /\ call'.out.status = "ok") =>
           call'.out.val.pose = call'.args[2]
      /\ (call'.op \in BatchOps /\ call'.out.status = "ok") =>
           \A i \in 1..Len(call'.out.result) : call'.out.result[i].pose = call'.args[2]
      /\ call'.op \in StaticOps \cup BatchOps => UNCHANGED <<q, x, rpose>> ]_vars

\* a twist tagged source has been transformed to a frame that is neither
\* source nor a sibling of it
C10_Witness ==
  /\ call.op = "transform_twist"
  /\ call.out.status = "ok"
  /\ call.args[1] # call.args[2]
  /\ call.args[1] # Global
  /\ call.args[2] # Global
  /\ call.args[3].pose = call.args[1]
  /\ rpose[call.args[1]] # rpose[call.args[2]]

\* two distinct frames with the same parent and the identity rotation
UnrotatedSiblings(A, B) ==
  /\ A # Global
  /\ B # Global
  /\ A # B
  /\ rpose[A] = rpose[B]
  /\ q[A] = QuatIdentity
  /\ q[B] = QuatIdentity

\* C11: for two distinct unrotated frames A and B with the same parent,
\* calc_transform(A, B) returns the identity rotation and the translation
\* A.x - B.x, and transform(A, B, p) of a point p tagged A returns the point
\* p + A.x - B.x tagged B.
C11_UnrotatedSiblings ==
  /\ (call.op = "calc_transform" /\ UnrotatedSiblings(call.args[1], call.args[2])) =>
        /\ call.out.status = "ok"
        /\ call.out.q = QuatIdentity
        /\ call.out.x = Sub3(x[call.args[1]], x[call.args[2]])
  /\ (call.op = "transform_point" /\ UnrotatedSiblings(call.args[1], call.args[2])
        /\ call.args[3].pose = call.args[1]) =>
        call.out = Returned(Point(call.args[2],
                     Sub3(Add3(call.args[3].v, x[call.args[1]]), x[call.args[2]])))

\* the point (0,0,0) tagged A has been transformed from A, at (1,0,0), to its
\* unrotated sibling B, at (0,1,0), and came out as (1,-1,0) tagged B
C11_Witness ==
  /\ call.op = "transform_point"
  /\ UnrotatedSiblings(call.args[1], call.args[2])
  /\ x[call.args[1]] = <<1, 0, 0>>
  /\ x[call.args[2]] = <<0, 1, 0>>
  /\ call.args[3] = Point(call.args[1], <<0, 0, 0>>)
  /\ call.out = Returned(Point(call.args[2], <<1, -1, 0>>))

-----------------------------------------------------------------------------
(* The resolver: properties                                                *)

\* the failures a caller can catch: the exceptions the library throws
CatchableErrors == {"FrameException", "MissizeException"}

IsCalcTransform == call.op = "calc_transform"

\* the general case is entered and no frame lies on both chains
NoCommonFrame(source, target) ==
  /\ source # Global
  /\ target # Global
  /\ source # target
  /\ rpose[source] # rpose[target]
  /\ Chain(source) \cap Chain(target) = {}

\* one of the walks the call makes runs on a chain that never ends
WalksCycle(source, target) ==
  /\ source # target
  /\ \/ target = Global /\ ~ReachesGlobal(source, Len(rpose))
     \/ source = Global /\ ~ReachesGlobal(target, Len(rpose))
     \/ /\ source # Global
        /\ target # Global
        /\ rpose[source] # rpose[target]
        /\ ~(ReachesGlobal(source, Len(rpose)) /\ ReachesGlobal(target, Len(rpose)))

\* C1: in an acyclic forest every call calc_transform(source, target), with
\* either frame possibly absent and also for frames that share no frame but
\* the global one, returns a Transform whose source and target are the given
\* references; it never ends in the failed assert(r) or the read of an absent
\* frame.
C1_AlwaysReturnsTransform ==
  (IsCalcTransform /\ Acyclic) =>
    /\ call.out.status = "ok"
    /\ call.out.source = call.args[1]
    /\ call.out.target = call.args[2]

\* C4: calc_transform(F, F), F a frame or absent, returns the identity
\* rotation and zero translation with source = target = F and reads no rpose
\* link.
C4_SameFrameIsIdentity ==
  (IsCalcTransform /\ call.args[1] = call.args[2]) =>
    /\ call.out.status = "ok"
    /\ call.out.q = QuatIdentity
    /\ call.out.x = Zero3
    /\ call.out.source = call.args[1]
    /\ call.out.target = call.args[1]
    /\ call.out.links = 0

\* calc_transform(F, F) has returned for a frame F that has a parent and a
\* rotation and translation of its own
C4_Witness ==
  /\ IsCalcTransform
  /\ call.args[1] = call.args[2]
  /\ call.args[1] # Global
  /\ rpose[call.args[1]] # Global
  /\ q[call.args[1]] # QuatIdentity
  /\ call.out.status = "ok"

\* C5: when the search of the general case has walked target's chain to its
\* end without meeting source's chain, calc_transform fails with an exception
\* the caller can catch; it does not abort on the assertion or read an absent
\* frame.
C5_NoCommonFrameIsCatchable ==
  (IsCalcTransform /\ Acyclic /\ NoCommonFrame(call.args[1], call.args[2])) =>
    call.out.status \in CatchableErrors

\* C6: calc_transform terminates on every input, and on a chain with a cycle
\* it ends with a structural error.
C6_AlwaysTerminates ==
  IsCalcTransform =>
    /\ call.out.status # "hang"
    /\ WalksCycle(call.args[1], call.args[2]) => call.out.status \in CatchableErrors

\* C7: after any sequence of constructions, assignments and reparentings the
\* parent relation is acyclic: every chain of rpose links reaches the absent
\* frame.
C7_ParentRelationAcyclic == Acyclic

-----------------------------------------------------------------------------
(* Frame algebra: operator*, interpolate, invert                           *)

\* a POSE3 value that is not (yet) a frame of the forest: a temporary
Pose(pq, px, parent) == [q |-> pq, x |-> px, rpose |-> parent]

\* the copy of frame f: POSE3(const POSE3& source) { operator=(source); }
PoseOf(f) == Pose(q[f], x[f], rpose[f])

\* the relative_pose of a frame constructed without one: none
DefaultParent == Global

\* POSE3(const QUAT& q, const ORIGIN3& v, relative_pose) as a value
pose_ctor(pq, px, parent) == Pose(QuatNormalize(pq), px, parent)

\* the check of operator* left out
compose_mismatch_unchecked(a, b) == FALSE

\* #ifndef NEXCEPT  if (rpose != p.rpose) throw FrameException();
compose_mismatch(a, b) == ~NEXCEPT /\ rpose[a] # rpose[b]

\* POSE3::operator*: a * b
compose(a, b) ==
  IF compose_mismatch(a, b) THEN Failed("FrameException")
  ELSE Returned(pose_ctor(QuatMul(q[a], q[b]), Add3(QuatRotate(q[a], x[b]), x[a]),
                          DefaultParent))

Dot4(a, b) == a[1] * b[1] + a[2] * b[2] + a[3] * b[3] + a[4] * b[4]

\* the interpolation factors 0, 1/2 and 1, written as twice their value
Halves == 0..2

\* QUAT::slerp(q1, q2, t), t2 twice the factor: along the shorter arc, so q2
\* is taken with the sign that makes the dot product with q1 non-negative.
\* The midpoint of two different rotations is not a quaternion of the exact
\* arithmetic and is kept as the pair it lies between.
slerp(q1, q2, t2) ==
  LET q2s == IF Dot4(q1, q2) < 0 THEN <<-q2[1], -q2[2], -q2[3], -q2[4]>> ELSE q2 IN
  IF t2 = 0 THEN q1
  ELSE IF t2 = 2 THEN q2s
  ELSE IF q1 = q2s THEN q1
  ELSE [midpoint_of |-> {q1, q2s}]

\* the interpolated translation with the weights of the two ends exchanged
lerp_weights_exchanged(x1, x2, t2) ==
  LET s == Add3(Scale3(x1, t2), Scale3(x2, 2 - t2)) IN
  <<s[1] \div 2, s[2] \div 2, s[3] \div 2>>

\* ORIGIN3 x = T1.x*(1-t) + T2.x*t, t2 twice the factor
lerp(x1, x2, t2) ==
  LET s == Add3(Scale3(x1, 2 - t2), Scale3(x2, t2)) IN
  <<s[1] \div 2, s[2] \div 2, s[3] \div 2>>

\* POSE3::interpolate(T1, T2, t)
interpolate(T1, T2, t2) ==
  Returned(pose_ctor(slerp(q[T1], q[T2], t2), lerp(x[T1], x[T2], t2), DefaultParent))

\* the inversion with the translation rotated by the rotation before it was
\* inverted
pose_invert_old_rotation(P) ==
  Pose(QuatInvert(P.q), QuatRotate(P.q, Neg3(P.x)), P.rpose)

\* POSE3::invert(): q.invert(); x = q * (-x);
pose_invert(P) ==
  LET iq == QuatInvert(P.q) IN Pose(iq, QuatRotate(iq, Neg3(P.x)), P.rpose)

\* POSE3::invert(const POSE3& p): return POSE3(p).invert();
invert_pure(p) == Returned(pose_invert(PoseOf(p)))

\* a call of a * b
Compose(a, b) == Called("compose", <<a, b>>, compose(a, b))

\* a call of POSE3::interpolate(T1, T2, t)
Interpolate(T1, T2, t2) == Called("interpolate", <<T1, T2, t2>>, interpolate(T1, T2, t2))

\* a call of POSE3::invert(p), the pure form
InvertPure(p) == Called("invert_pure", <<p>>, invert_pure(p))

\* a call of p->invert(), the in-place form; it returns *this
Invert(p) ==
  /\ Idle
  /\ q' = [q EXCEPT ![p] = pose_invert(PoseOf(p)).q]
  /\ x' = [x EXCEPT ![p] = pose_invert(PoseOf(p)).x]
  /\ call' = [op |-> "invert", args |-> <<p>>, out |-> Returned(p)]
  /\ UNCHANGED <<rpose, NEXCEPT>>

DoCompose == Idle /\ \E a \in Live, b \in Live : Compose(a, b)

DoInterpolate == Idle /\ \E T1 \in Live, T2 \in Live, t2 \in Halves : Interpolate(T1, T2, t2)

DoInvertPure == Idle /\ \E p \in Live : InvertPure(p)

DoInvert == Idle /\ \E p \in Live : Invert(p)

\* the forests of InitApply, every translation doubled so that the midpoint
\* of two translations is exact
InitPose ==
  \E p \in ParentsBelow, flavour \in Flavours :
    /\ q = SeqOf([f \in 1..NumFrames |-> QuatNormalize(CtorOf(flavour, f)[1])], NumFrames)
    /\ x = SeqOf([f \in 1..NumFrames |-> Scale3(CtorOf(flavour, f)[2], 2)], NumFrames)
    /\ rpose = SeqOf(p, NumFrames)
    /\ NEXCEPT \in BOOLEAN
    /\ call = NoCall

NextPose == DoCompose \/ DoInterpolate \/ DoInvertPure \/ DoInvert \/ Return

SpecPose == InitPose /\ [][NextPose]_vars

\* C12: a * b fails with FrameException and returns no frame when the frame
\* checks are compiled in and the parents of a and b are different
\* references; when they are the same reference it returns rotation
\* a.q * b.q and translation a.q * b.x + a.x; either way a and b and every
\* other frame are as before.
C12_ComposeChecksParents ==
  [][ call'.op = "compose" =>
        LET a == call'.args[1]
            b == call'.args[2]
        IN  /\ (~NEXCEPT /\ rpose[a] # rpose[b]) => call'.out = Failed("FrameException")
            /\ rpose[a] = rpose[b] =>
                 /\ call'.out.status = "ok"
                 /\ call'.out.val.q = QuatMul(q[a], q[b])
                 /\ call'.out.val.x = Add3(QuatRotate(q[a], x[b]), x[a])
            /\ UNCHANGED <<q, x, rpose>> ]_vars

\* with the frame checks compiled in, a * b has failed for two frames with
\* different parents
C12_Witness ==
  /\ call.op = "compose"
  /\ ~NEXCEPT
  /\ rpose[call.args[1]] # rpose[call.args[2]]
  /\ call.out.status = "FrameException"

\* C13: the frame returned by a * b has the parent of b, and the frame
\* returned by interpolate(A, B, t) for A and B with the same parent has that
\* parent.
C13_DerivedFrameKeepsParent ==
  /\ (call.op = "compose" /\ call.out.status = "ok"
        /\ rpose[call.args[1]] = rpose[call.args[2]]) =>
        call.out.val.rpose = rpose[call.args[2]]
  /\ (call.op = "interpolate" /\ rpose[call.args[1]] = rpose[call.args[2]]) =>
        call.out.val.rpose = rpose[call.args[1]]

\* C14: for A and B with the same parent, interpolate(A, B, 0) has the
\* translation and rotation of A, interpolate(A, B, 1) those of B, and
\* interpolate(A, B, 1/2) the translation (A.x + B.x)/2 and the rotation
\* slerp(A.q, B.q, 1/2); no frame is changed.
C14_InterpolateEndsAndMidpoint ==
  [][ (call'.op = "interpolate" /\ rpose[call'.args[1]] = rpose[call'.args[2]]) =>
        LET A  == call'.args[1]
            B  == call'.args[2]
            t2 == call'.args[3]
            P  == call'.out.val
        IN  /\ call'.out.status = "ok"
            /\ t2 = 0 => (P.x = x[A] /\ SameRotation(P.q, q[A]))
            /\ t2 = 2 => (P.x = x[B] /\ SameRotation(P.q, q[B]))
            /\ t2 = 1 => (Scale3(P.x, 2) = Add3(x[A], x[B]) /\ P.q = slerp(q[A], q[B], 1))
            /\ UNCHANGED <<q, x, rpose>> ]_vars

\* interpolate(A, B, 1/2) has returned for two frames with the same parent
\* and different translations and rotations
C14_Witness ==
  /\ call.op = "interpolate"
  /\ call.args[3] = 1
  /\ rpose[call.args[1]] = rpose[call.args[2]]
  /\ x[call.args[1]] # x[call.args[2]]
  /\ ~SameRotation(q[call.args[1]], q[call.args[2]])
  /\ call.out.status = "ok"

\* C20: invert(P) leaves P as it is and returns rotation P.q^-1, translation
\* P.q^-1 * (-P.x) and the parent of P; P.invert() leaves that rotation and
\* translation in P; and inverting the inverted frame gives the rotation and
\* translation P had.
C20_Inversion ==
  [][ /\ call'.op = "invert_pure" =>
           LET p == call'.args[1] IN
           /\ UNCHANGED <<q, x, rpose>>
           /\ call'.out = Returned(Pose(QuatInvert(q[p]),
                                        QuatRotate(QuatInvert(q[p]), Neg3(x[p])), rpose[p]))
      /\ call'.op = "invert" =>
           LET p == call'.args[1] IN
           /\ q'[p] = QuatInvert(q[p])
           /\ x'[p] = QuatRotate(QuatInvert(q[p]), Neg3(x[p]))
           /\ \A f \in Live \ {p} : q'[f] = q[f] /\ x'[f] = x[f]
           /\ rpose' = rpose
           /\ pose_invert(Pose(q'[p], x'[p], rpose'[p])) = PoseOf(p) ]_vars

\* a rotated frame with a translation and a parent has been inverted in place
C20_Witness ==
  /\ call.op = "invert"
  /\ q[call.args[1]] \notin {QuatIdentity, QB}
  /\ x[call.args[1]] # Zero3
  /\ rpose[call.args[1]] # Global

-----------------------------------------------------------------------------
(* Reparenting and resolving while the caller holds a value                *)

\* the caller constructs a point tagged pose and keeps it
Hold(pose, v) ==
  /\ Idle
  /\ call' = [op |-> "hold", args |-> <<>>, out |-> Returned(Point(pose, v))]
  /\ UNCHANGED <<q, x, rpose, NEXCEPT>>

DoHold == Idle /\ \E pose \in Refs, v \in PointsIn : Hold(pose, v)

DoReparentHolding ==
  /\ HoldsQuantity \/ HoldsTransform
  /\ \E f \in Live, p \in Refs : Reparent(f, p)

\* the caller, still holding the Transform of the last call, asks for the
\* same two frames again
DoCalcTransformAgain ==
  /\ HoldsTransform
  /\ \E ub \in NoCommonOutcomes : CalcTransform(call.args[1], call.args[2], ub)

\* the forest of these runs is one frame smaller than that of the other
\* runs: the values held across reparentings multiply with its size
HoldFrames == NumFrames - 1

InitHold ==
  \E p \in ParentsBelow, flavour \in Flavours :
    /\ q = SeqOf([f \in 1..NumFrames |-> QuatNormalize(CtorOf(flavour, f)[1])], HoldFrames)
    /\ x = SeqOf([f \in 1..NumFrames |-> CtorOf(flavour, f)[2]], HoldFrames)
    /\ rpose = SeqOf(p, HoldFrames)
    /\ NEXCEPT = FALSE
    /\ call = NoCall

NextHold ==
  \/ DoHold
  \/ DoReparent
  \/ DoReparentHolding
  \/ DoCalcTransform
  \/ DoCalcTransformAgain
  \/ Return

SpecHold == InitHold /\ [][NextHold]_vars

FromPresentLinks(c) ==
  \E ub \in NoCommonOutcomes : c.out = calc_transform(c.args[1], c.args[2], ub)

-----------------------------------------------------------------------------
(* The instance transforms: f->transform(v) takes a quantity tagged f to   *)
(* the parent of f, f->inverse_transform(v) one tagged with the parent to f *)

\* POSE3::get_r_E(r, E, inverse), as the Transform with rotation E and
\* translation r that the bodies of the static transforms take; tag is the
\* frame the result is tagged with
get_r_E(f, inverse, tag) ==
  IF ~inverse THEN Tx("ok", f, tag, q[f], Neg3(x[f]), 0)
  ELSE LET iq == QuatInvert(q[f]) IN
       Tx("ok", f, tag, iq, MatVec(QuatToMat(iq), x[f]), 0)

\* #ifndef NEXCEPT  if (v.pose != pose) throw FrameException();  in the build
\* nexcept
inst_mismatch(nexcept, pose, tag) == ~nexcept /\ tag # pose

\* the tag of the result of an inverse_transform: result.pose = pose stands
\* inside #ifndef NEXCEPT, so the NEXCEPT build leaves the tag the result was
\* constructed with
inverse_tag(nexcept, f, untagged) == IF nexcept THEN untagged ELSE f

\* POSE3::transform(const VECTOR3&) const
inst_transform_vector(f, v, nexcept) ==
  IF inst_mismatch(nexcept, f, v.pose) THEN Failed("FrameException")
  ELSE Returned(Vector(rpose[f], QuatRotate(q[f], v.v)))

\* POSE3::inverse_transform(const VECTOR3&) const
inst_inverse_transform_vector(f, v, nexcept, untagged) ==
  IF inst_mismatch(nexcept, rpose[f], v.pose) THEN Failed("FrameException")
  ELSE Returned(Vector(inverse_tag(nexcept, f, untagged), QuatRotate(QuatInvert(q[f]), v.v)))

\* POSE3::transform(const POINT3&) const
inst_transform_point(f, v, nexcept) ==
  IF inst_mismatch(nexcept, f, v.pose) THEN Failed("FrameException")
  ELSE Returned(Point(rpose[f], Add3(QuatRotate(q[f], v.v), x[f])))

\* POSE3::inverse_transform(const POINT3&) const
inst_inverse_transform_point(f, v, nexcept, untagged) ==
  IF inst_mismatch(nexcept, rpose[f], v.pose) THEN Failed("FrameException")
  ELSE Returned(Point(inverse_tag(nexcept, f, untagged),
                      QuatRotate(QuatInvert(q[f]), Sub3(v.v, x[f]))))

\* POSE3::transform(const WRENCH&) const
inst_transform_wrench(f, v, nexcept) ==
  IF inst_mismatch(nexcept, f, v.pose) THEN Failed("FrameException")
  ELSE Returned(spatial_apply(get_r_E(f, FALSE, rpose[f]), v))

\* POSE3::inverse_transform(const WRENCH&) const
inst_inverse_transform_wrench(f, v, nexcept, untagged) ==
  IF inst_mismatch(nexcept, rpose[f], v.pose) THEN Failed("FrameException")
  ELSE Returned(spatial_apply(get_r_E(f, TRUE, inverse_tag(nexcept, f, untagged)), v))

\* POSE3::transform(const TWIST&) const
inst_transform_twist(f, v, nexcept) ==
  IF inst_mismatch(nexcept, f, v.pose) THEN Failed("FrameException")
  ELSE Returned(spatial_apply(get_r_E(f, FALSE, rpose[f]), v))

\* POSE3::inverse_transform(const TWIST&) const
inst_inverse_transform_twist(f, v, nexcept, untagged) ==
  IF inst_mismatch(nexcept, rpose[f], v.pose) THEN Failed("FrameException")
  ELSE Returned(spatial_apply(get_r_E(f, TRUE, inverse_tag(nexcept, f, untagged)), v))

\* POSE3::transform(const SPATIAL_RB_INERTIA&) const
inst_transform_rb_inertia(f, v, nexcept) ==
  IF inst_mismatch(nexcept, f, v.pose) THEN Failed("FrameException")
  ELSE Returned(rb_inertia_apply(get_r_E(f, FALSE, rpose[f]), v))

\* POSE3::inverse_transform(const SPATIAL_RB_INERTIA&) const
inst_inverse_transform_rb_inertia(f, v, nexcept, untagged) ==
  IF inst_mismatch(nexcept, rpose[f], v.pose) THEN Failed("FrameException")
  ELSE Returned(rb_inertia_apply(get_r_E(f, TRUE, inverse_tag(nexcept, f, untagged)), v))

\* POSE3::transform(const SPATIAL_AB_INERTIA&) const
inst_transform_ab_inertia(f, v, nexcept) ==
  IF inst_mismatch(nexcept, f, v.pose) THEN Failed("FrameException")
  ELSE Returned(ab_inertia_apply(get_r_E(f, FALSE, rpose[f]), v))

\* POSE3::inverse_transform(const SPATIAL_AB_INERTIA&) const
inst_inverse_transform_ab_inertia(f, v, nexcept, untagged) ==
  IF inst_mismatch(nexcept, rpose[f], v.pose) THEN Failed("FrameException")
  ELSE Returned(ab_inertia_apply(get_r_E(f, TRUE, inverse_tag(nexcept, f, untagged)), v))

ForwardOps ==
  { "inst_transform_vector", "inst_transform_point", "inst_transform_wrench",
    "inst_transform_twist", "inst_transform_rb_inertia", "inst_transform_ab_inertia" }

InverseOps ==
  { "inst_inverse_transform_vector", "inst_inverse_transform_point",
    "inst_inverse_transform_wrench", "inst_inverse_transform_twist",
    "inst_inverse_transform_rb_inertia", "inst_inverse_transform_ab_inertia" }

\* the instance transform named op, in the build nexcept
instance_op(op, f, v, nexcept, untagged) ==
  CASE op = "inst_transform_vector" -> inst_transform_vector(f, v, nexcept)
    [] op = "inst_transform_point" -> inst_transform_point(f, v, nexcept)
    [] op = "inst_transform_wrench" -> inst_transform_wrench(f, v, nexcept)
    [] op = "inst_transform_twist" -> inst_transform_twist(f, v, nexcept)
    [] op = "inst_transform_rb_inertia" -> inst_transform_rb_inertia(f, v, nexcept)
    [] op = "inst_transform_ab_inertia" -> inst_transform_ab_inertia(f, v, nexcept)
    [] op = "inst_inverse_transform_vector" ->
         inst_inverse_transform_vector(f, v, nexcept, untagged)
    [] op = "inst_inverse_transform_point" ->
         inst_inverse_transform_point(f, v, nexcept, untagged)
    [] op = "inst_inverse_transform_wrench" ->
         inst_inverse_transform_wrench(f, v, nexcept, untagged)
    [] op = "inst_inverse_transform_twist" ->
         inst_inverse_transform_twist(f, v, nexcept, untagged)
    [] op = "inst_inverse_transform_rb_inertia" ->
         inst_inverse_transform_rb_inertia(f, v, nexcept, untagged)
    [] op = "inst_inverse_transform_ab_inertia" ->
         inst_inverse_transform_ab_inertia(f, v, nexcept, untagged)

\* a call of the instance transform named op on frame f
InstanceCall(op, f, v, untagged) ==
  Called(op, <<f, v>>, instance_op(op, f, v, NEXCEPT, untagged))

DoInstTransformVector ==
  /\ Idle
  /\ \E f \in Live, pose \in Refs, v \in VectorsIn :
       InstanceCall("inst_transform_vector", f, Vector(pose, v), Global)

\* QUAT::operator* is not under src/: the result it constructs carries the
\* tag of its operand or none
DoInstInverseTransformVector ==
  /\ Idle
  /\ \E f \in Live, pose \in Refs, v \in VectorsIn :
       \E untagged \in {Global, pose} :
           InstanceCall("inst_inverse_transform_vector", f, Vector(pose, v), untagged)

DoInstTransformPoint ==
  /\ Idle
  /\ \E f \in Live, pose \in Refs, v \in PointsIn :
       InstanceCall("inst_transform_point", f, Point(pose, v), Global)

\* QUAT::operator* is not under src/: the result it constructs carries the
\* tag of its operand or none
DoInstInverseTransformPoint ==
  /\ Idle
  /\ \E f \in Live, pose \in Refs, v \in PointsIn :
       \E untagged \in {Global, pose} :
           InstanceCall("inst_inverse_transform_point", f, Point(pose, v), untagged)

DoInstTransformWrench ==
  /\ Idle
  /\ \E f \in Live, pose \in Refs, v \in SVecsIn :
       InstanceCall("inst_transform_wrench", f, SVec(pose, v.top, v.bottom), Global)

\* SVECTOR6(upper, lower) sets no pose
DoInstInverseTransformWrench ==
  /\ Idle
  /\ \E f \in Live, pose \in Refs, v \in SVecsIn :
       InstanceCall("inst_inverse_transform_wrench", f, SVec(pose, v.top, v.bottom), Global)

DoInstTransformTwist ==
  /\ Idle
  /\ \E f \in Live, pose \in Refs, v \in SVecsIn :
       InstanceCall("inst_transform_twist", f, SVec(pose, v.top, v.bottom), Global)

\* SVECTOR6(upper, lower) sets no pose
DoInstInverseTransformTwist ==
  /\ Idle
  /\ \E f \in Live, pose \in Refs, v \in SVecsIn :
       InstanceCall("inst_inverse_transform_twist", f, SVec(pose, v.top, v.bottom), Global)

DoInstTransformRBInertia ==
  /\ Idle
  /\ \E f \in Live, pose \in Refs, v \in RBInertiasIn :
       InstanceCall("inst_transform_rb_inertia", f, RBInertia(pose, v.m, v.h, v.J), Global)

\* a default-constructed inertia has no pose
DoInstInverseTransformRBInertia ==
  /\ Idle
  /\ \E f \in Live, pose \in Refs, v \in RBInertiasIn :
       InstanceCall("inst_inverse_transform_rb_inertia", f, RBInertia(pose, v.m, v.h, v.J), Global)

DoInstTransformABInertia ==
  /\ Idle
  /\ \E f \in Live, pose \in Refs, v \in ABInertiasIn :
       InstanceCall("inst_transform_ab_inertia", f, ABInertia(pose, v.M, v.H, v.J), Global)

\* a default-constructed inertia has no pose
DoInstInverseTransformABInertia ==
  /\ Idle
  /\ \E f \in Live, pose \in Refs, v \in ABInertiasIn :
       InstanceCall("inst_inverse_transform_ab_inertia", f, ABInertia(pose, v.M, v.H, v.J), Global)

\* the forests of every flavour, in both builds
InitInstance ==
  \E p \in ParentsBelow, flavour \in Flavours :
    /\ q = SeqOf([f \in 1..NumFrames |-> QuatNormalize(CtorOf(flavour, f)[1])], NumFrames)
    /\ x = SeqOf([f \in 1..NumFrames |-> CtorOf(flavour, f)[2]], NumFrames)
    /\ rpose = SeqOf(p, NumFrames)
    /\ NEXCEPT \in BOOLEAN
    /\ call = NoCall

NextInstance ==
  \/ DoCalcTransform
  \/ DoTransformPoint
  \/ DoTransformRBInertia
  \/ DoInstTransformVector
  \/ DoInstInverseTransformVector
  \/ DoInstTransformPoint
  \/ DoInstInverseTransformPoint
  \/ DoInstTransformWrench
  \/ DoInstInverseTransformWrench
  \/ DoInstTransformTwist
  \/ DoInstInverseTransformTwist
  \/ DoInstTransformRBInertia
  \/ DoInstInverseTransformRBInertia
  \/ DoInstTransformABInertia
  \/ DoInstInverseTransformABInertia
  \/ Return

SpecInstance == InitInstance /\ [][NextInstance]_vars

\* C16: the static transform(source, target, J), the instance transform(J)
\* and the instance inverse_transform(J) of a rigid body inertia J, when they
\* return, return an inertia with the mass J.m.
C16_MassPreserved ==
  /\ (call.op = "transform_rb_inertia" /\ call.out.status = "ok") =>
        call.out.val.m = call.args[3].m
  /\ (call.op \in {"inst_transform_rb_inertia", "inst_inverse_transform_rb_inertia"}
        /\ call.out.status = "ok") =>
        call.out.val.m = call.args[2].m

\* the inverse_transform of a rigid body inertia has returned for a rotated
\* frame with a translation
C16_Witness ==
  /\ call.op = "inst_inverse_transform_rb_inertia"
  /\ call.out.status = "ok"
  /\ q[call.args[1]] # QuatIdentity
  /\ x[call.args[1]] # Zero3
  /\ call.out.val.h # call.args[2].h

\* the frame precondition of an instance transform: the quantity is tagged
\* with the frame itself, or for inverse_transform with its parent
InstancePrecondition ==
  IF call.op \in ForwardOps THEN call.args[2].pose = call.args[1]
  ELSE call.args[2].pose = rpose[call.args[1]]

\* what a static transform returns in the build with the frame checks when
\* the quantity is tagged source
static_guarded(op, source, target, v, ub) ==
  LET T == calc_transform(source, target, ub) IN
  IF T.status # "ok" THEN Failed(T.status)
  ELSE Returned(CASE op = "transform_vector" -> Tx_transform_vector(T, v)
                  [] op = "transform_point" -> Tx_transform_point(T, v)
                  [] op \in {"transform_wrench", "transform_twist"} -> spatial_apply(T, v)
                  [] op = "transform_rb_inertia" -> rb_inertia_apply(T, v)
                  [] op = "transform_ab_inertia" -> ab_inertia_apply(T, v))

\* C18: in the build with NEXCEPT, every call of a static transform, an
\* instance transform or an instance inverse_transform whose frame
\* precondition holds returns the components and the tag that the build with
\* the frame checks returns.
C18_BuildsAgree ==
  /\ (NEXCEPT /\ call.op \in ForwardOps \cup InverseOps /\ InstancePrecondition) =>
        call.out = instance_op(call.op, call.args[1], call.args[2], FALSE, Global)
  /\ (NEXCEPT /\ call.op \in StaticOps /\ call.args[3].pose = call.args[1]) =>
        \E ub \in NoCommonOutcomes :
          call.out = static_guarded(call.op, call.args[1], call.args[2], call.args[3], ub)

-----------------------------------------------------------------------------
(* SPARITH::mult over a vector of momenta                                  *)

\* the six entries data() of a momentum
Data6(m) == m.top \o m.bottom

Zeros(n) == [i \in 1..n |-> 0]

\* a dense matrix: its size and its columns, each a vector of rows entries
MatrixN(rows, columns, col) == [rows |-> rows, columns |-> columns, col |-> col]

\* MATRIXN::set_zero(rows, columns)
ZeroMatrix(rows, columns) == MatrixN(rows, columns, [k \in 1..columns |-> Zeros(rows)])

RECURSIVE SumTo(_, _)
SumTo(f, n) == IF n = 0 THEN 0 ELSE f[n] + SumTo(f, n - 1)

\* if (Is[i].pose != Is[i-1].pose) throw FrameException();  for i from 1
mult_mismatch(Is) == \E i \in 2..Len(Is) : Is[i].pose # Is[i - 1].pose

\* rdata[j] += Isdata[j]*vdata[i], summed over i
mult_column(Is, v) ==
  [j \in 1..6 |-> SumTo([i \in 1..Len(Is) |-> Data6(Is[i])[j] * v[i]], Len(Is))]

\* how a mult ends and what the caller's result object then holds
Mult(status, result) == [status |-> status, result |-> result]

\* SPARITH::mult(const vector<SMOMENTUM>&, const VECTORN& v, VECTORN& result)
mult_vector(Is, v, result) ==
  IF Len(Is) # Len(v) THEN Mult("MissizeException", result)
  ELSE IF Is = <<>> THEN Mult("ok", Zeros(6))
  ELSE IF mult_mismatch(Is) THEN Mult("FrameException", Zeros(6))
  ELSE Mult("ok", mult_column(Is, v))

\* SPARITH::mult(const vector<SMOMENTUM>&, const MATRIXN& m, MATRIXN& result)
mult_matrix(Is, m, result) ==
  IF Len(Is) # m.rows THEN Mult("MissizeException", result)
  ELSE IF Is = <<>> THEN Mult("ok", ZeroMatrix(6, m.columns))
  ELSE IF mult_mismatch(Is) THEN Mult("FrameException", ZeroMatrix(6, m.columns))
  ELSE Mult("ok", MatrixN(6, m.columns,
                          [k \in 1..m.columns |-> mult_column(Is, m.col[k])]))

MultVector(Is, v, result) == Called("mult_vector", <<Is, v, result>>, mult_vector(Is, v, result))

MultMatrix(Is, m, result) == Called("mult_matrix", <<Is, m, result>>, mult_matrix(Is, m, result))

\* the dense operands: rows entries, and rows x columns entries
VectorOf(rows) == [i \in 1..rows |-> i + 1]

MatrixOf(rows, columns) ==
  MatrixN(rows, columns, [k \in 1..columns |-> [i \in 1..rows |-> i + k]])

\* what the caller's result object holds before the call
VectorResultsIn == { <<>>, <<9, 9, 9>>, Zeros(6) }

MatrixResultsIn == { ZeroMatrix(0, 0), MatrixN(1, 1, <<(<<9>>)>>) }

DoMultVector ==
  /\ Idle
  /\ \E base \in Refs, n \in 0..MaxBatch, rows \in 0..MaxBatch, result \in VectorResultsIn :
       \E k \in 0..n, other \in Refs :
         MultVector(BatchOf(n, base, k, other), VectorOf(rows), result)

DoMultMatrix ==
  /\ Idle
  /\ \E base \in Refs, n \in 0..MaxBatch, rows \in 0..MaxBatch, columns \in 1..MaxBatch,
        result \in MatrixResultsIn :
       \E k \in 0..n, other \in Refs :
         MultMatrix(BatchOf(n, base, k, other), MatrixOf(rows, columns), result)

NextMult == DoMultVector \/ DoMultMatrix \/ Return

SpecMult == InitHold /\ [][NextMult]_vars

\* C19: when mult over a vector of momenta fails, with MissizeException or
\* with FrameException, the caller's result object has the size and the
\* entries it had before the call.
C19_MultNoPartialResult ==
  (call.op \in {"mult_vector", "mult_matrix"} /\ call.out.status # "ok") =>
    call.out.result = call.args[3]

-----------------------------------------------------------------------------
(* The resolver on deeper forests                                          *)

\* the forest of these runs has one frame more than that of the other runs,
\* so that two frames can meet at a frame that is neither of them
ResolveFrames == NumFrames + 1

ParentsBelowIn(n) == { p \in [1..n -> 0..n] : \A f \in 1..n : p[f] < f }

InitResolve ==
  \E p \in ParentsBelowIn(ResolveFrames), flavour \in Flavours :
    /\ q = SeqOf([f \in 1..ResolveFrames |-> QuatNormalize(CtorOf(flavour, f)[1])],
                 ResolveFrames)
    /\ x = SeqOf([f \in 1..ResolveFrames |-> CtorOf(flavour, f)[2]], ResolveFrames)
    /\ rpose = SeqOf(p, ResolveFrames)
    /\ NEXCEPT = FALSE
    /\ call = NoCall

NextResolve == DoCalcTransform \/ Return

SpecResolve == InitResolve /\ [][NextResolve]_vars

\* the rotation and translation of frame f in its parent
OwnPose(f) == [q |-> q[f], x |-> x[f]]

\* the pose c, given in a frame with pose P, expressed in the frame P is given in
Within(P, c) == [q |-> QuatMul(P.q, c.q), x |-> Add3(P.x, QuatRotate(P.q, c.x))]

\* the pose of f in the parent of its ancestor r (r = f included), composed
\* from r down to f; defined on chains that reach r
RECURSIVE PoseUpTo(_, _)
PoseUpTo(f, r) ==
  IF f = r THEN OwnPose(f) ELSE Within(PoseUpTo(rpose[f], r), OwnPose(f))

\* the pose of f in the global frame, composed from the root down to f
RECURSIVE PoseInGlobal(_)
PoseInGlobal(f) ==
  IF rpose[f] = Global THEN OwnPose(f) ELSE Within(PoseInGlobal(rpose[f]), OwnPose(f))

\* the number of frames on the chain of f
Depth(f) == Cardinality(Chain(f))

\* a Transform applied to the components of a point
ApplyTo(T, p) == Add3(QuatRotate(T.q, p), T.x)

\* C21: for a frame source, calc_transform(source, global) returns the pose
\* of source composed through all its ancestors from the root down, reading
\* one parent link per frame of the chain; for a root it is (source.q,
\* source.x).
C21_ToGlobalComposesChain ==
  (IsCalcTransform /\ call.args[2] = Global /\ call.args[1] # Global) =>
    /\ call.out.status = "ok"
    /\ call.out.q = PoseInGlobal(call.args[1]).q
    /\ call.out.x = PoseInGlobal(call.args[1]).x
    /\ call.out.links = Depth(call.args[1])
    /\ rpose[call.args[1]] = Global =>
         (call.out.q = q[call.args[1]] /\ call.out.x = x[call.args[1]])

\* calc_transform(source, global) has returned for a frame three links below
\* the global frame, in a forest of different rotations
C21_Witness ==
  /\ IsCalcTransform
  /\ call.args[2] = Global
  /\ call.args[1] # Global
  /\ Depth(call.args[1]) >= 3
  /\ q[call.args[1]] # q[rpose[call.args[1]]]
  /\ call.out.status = "ok"

\* C22: calc_transform(global, T) is the inverse of calc_transform(T, global):
\* with (R, X) the latter it has rotation R^-1 and translation R^-1 * (-X),
\* and applying the two, in either order, to a point gives the point.
C22_FromGlobalInvertsToGlobal ==
  (IsCalcTransform /\ call.args[1] = Global /\ call.args[2] # Global) =>
    LET to == calc_transform(call.args[2], Global, "assert_failed") IN
    /\ call.out.status = "ok"
    /\ call.out.q = QuatInvert(to.q)
    /\ call.out.x = QuatRotate(QuatInvert(to.q), Neg3(to.x))
    /\ \A p \in PointsIn :
         /\ ApplyTo(call.out, ApplyTo(to, p)) = p
         /\ ApplyTo(to, ApplyTo(call.out, p)) = p

\* calc_transform(global, T) has returned for a rotated frame T with a rotated
\* parent
C22_Witness ==
  /\ IsCalcTransform
  /\ call.args[1] = Global
  /\ call.args[2] # Global
  /\ rpose[call.args[2]] # Global
  /\ q[call.args[2]] # QuatIdentity
  /\ q[rpose[call.args[2]]] # QuatIdentity
  /\ call.out.status = "ok"
  /\ call.out.x # Zero3

\* the sibling case: two different frames with the same parent
Siblings(source, target) ==
  /\ source # Global
  /\ target # Global
  /\ source # target
  /\ rpose[source] = rpose[target]

\* C23: for two different frames with the same parent calc_transform returns
\* what the general formula gives with the parent as common frame: rotation
\* target.q^-1 * source.q and translation target.q^-1 * (source.x - target.x),
\* whatever the rotation of source.
C23_SiblingIsGeneralFormula ==
  (IsCalcTransform /\ Siblings(call.args[1], call.args[2])) =>
    LET source == call.args[1]
        target == call.args[2]
    IN  /\ call.out.status = "ok"
        /\ call.out.q = QuatMul(QuatInvert(q[target]), q[source])
        /\ call.out.x = QuatRotate(QuatInvert(q[target]), Sub3(x[source], x[target]))

\* the general case of calc_transform is entered
GeneralCase(source, target) ==
  /\ source # Global
  /\ target # Global
  /\ source # target
  /\ rpose[source] # rpose[target]

\* the frames on both chains
CommonFrames(source, target) == Chain(source) \cap Chain(target)

\* the deepest frame on both chains
LowestCommon(source, target) ==
  CHOOSE r \in CommonFrames(source, target) :
    \A g \in CommonFrames(source, target) : Depth(g) <= Depth(r)

\* C24: in the general case, when the two chains share a frame, the search
\* ends at the first frame r of target's chain (target included) that is on
\* source's chain (source included); the index of is_common is the number of
\* links from source to r; r is the lowest common ancestor; and the result is
\* inv(right_q) * left_q and inv(right_q) * (left_x - right_x), left and right
\* being source and target composed up to and including r.
C24_GeneralCaseUsesLowestCommon ==
  (IsCalcTransform /\ GeneralCase(call.args[1], call.args[2])
     /\ CommonFrames(call.args[1], call.args[2]) # {}) =>
    LET source == call.args[1]
        target == call.args[2]
        c      == search_common(source, target, 2, Len(rpose))
        r      == LowestCommon(source, target)
        left   == PoseUpTo(source, r)
        right  == PoseUpTo(target, r)
    IN  /\ call.out.status = "ok"
        /\ c.end = "found"
        /\ c.r = r
        /\ \A g \in Chain(target) : Depth(g) > Depth(r) => g \notin Chain(source)
        /\ c.i = Depth(source) - Depth(r)
        /\ is_common(source, r).i = c.i
        /\ \A g \in CommonFrames(source, target) : g = r \/ g \in Chain(rpose[r])
        /\ call.out.q = QuatMul(QuatInvert(right.q), left.q)
        /\ call.out.x = QuatRotate(QuatInvert(right.q), Sub3(left.x, right.x))

\* calc_transform has returned for two frames whose lowest common ancestor is
\* neither of them and has a parent of its own
C24_Witness ==
  /\ IsCalcTransform
  /\ GeneralCase(call.args[1], call.args[2])
  /\ CommonFrames(call.args[1], call.args[2]) # {}
  /\ LowestCommon(call.args[1], call.args[2]) \notin {call.args[1], call.args[2]}
  /\ q[call.args[1]] # q[call.args[2]]
  /\ call.out.status = "ok"

-----------------------------------------------------------------------------
(* The instance transforms against the static ones, and round trips        *)

\* the static transform that takes the quantity of the instance transform op
static_of(op, source, target, v, ub) ==
  CASE op = "inst_transform_vector" -> transform_vector(source, target, v, ub)
    [] op = "inst_transform_point" -> transform_point(source, target, v, ub)
    [] op = "inst_transform_wrench" -> transform_wrench(source, target, v, ub)
    [] op = "inst_transform_twist" -> transform_twist(source, target, v, ub)
    [] op = "inst_transform_rb_inertia" -> transform_rb_inertia(source, target, v, ub)
    [] op = "inst_transform_ab_inertia" -> transform_ab_inertia(source, target, v, ub)

SpatialForwardOps ==
  { "inst_transform_wrench", "inst_transform_twist",
    "inst_transform_rb_inertia", "inst_transform_ab_inertia" }

\* C25: for a frame P with parent Q and a twist, a wrench, a rigid body
\* inertia or an articulated body inertia t tagged P, P.transform(t) returns
\* what the static transform(P, Q, t) returns: the same components and the
\* tag Q.
C25_InstanceIsStatic ==
  (call.op \in SpatialForwardOps /\ call.args[2].pose = call.args[1]) =>
    \E ub \in NoCommonOutcomes :
      call.out = static_of(call.op, call.args[1], rpose[call.args[1]], call.args[2], ub)

\* the inverse of a forward instance transform and the forward one of an
\* inverse
opposite_of(op) ==
  CASE op = "inst_transform_vector" -> "inst_inverse_transform_vector"
    [] op = "inst_transform_point" -> "inst_inverse_transform_point"
    [] op = "inst_transform_wrench" -> "inst_inverse_transform_wrench"
    [] op = "inst_transform_twist" -> "inst_inverse_transform_twist"
    [] op = "inst_transform_rb_inertia" -> "inst_inverse_transform_rb_inertia"
    [] op = "inst_transform_ab_inertia" -> "inst_inverse_transform_ab_inertia"
    [] op = "inst_inverse_transform_vector" -> "inst_transform_vector"
    [] op = "inst_inverse_transform_point" -> "inst_transform_point"
    [] op = "inst_inverse_transform_wrench" -> "inst_transform_wrench"
    [] op = "inst_inverse_transform_twist" -> "inst_transform_twist"
    [] op = "inst_inverse_transform_rb_inertia" -> "inst_transform_rb_inertia"
    [] op = "inst_inverse_transform_ab_inertia" -> "inst_transform_ab_inertia"

\* the tags the result of an inverse_transform of v may have been constructed
\* with: a vector or a point comes from QUAT::operator*, which is not under
\* src/ and hands on the tag of its operand or none; the spatial quantities
\* are constructed without pose
UntaggedOf(op, v) ==
  IF op \in {"inst_inverse_transform_vector", "inst_inverse_transform_point"}
  THEN {Global, v.pose} ELSE {Global}

\* P.inverse_transform(P.transform(t)) is t, components and tag
BackAndForth ==
  (call.op \in ForwardOps /\ call.out.status = "ok"
     /\ call.args[2].pose = call.args[1]) =>
    \A untagged \in UntaggedOf(opposite_of(call.op), call.out.val) :
      instance_op(opposite_of(call.op), call.args[1], call.out.val, NEXCEPT, untagged)
        = Returned(call.args[2])

\* P.transform(P.inverse_transform(u)) is u, components and tag
ForthAndBack ==
  (call.op \in InverseOps /\ call.out.status = "ok"
     /\ call.args[2].pose = rpose[call.args[1]]) =>
    instance_op(opposite_of(call.op), call.args[1], call.out.val, NEXCEPT, Global)
      = Returned(call.args[2])

\* C26: for a frame P and a quantity t tagged P, of any of the six shapes,
\* P.inverse_transform(P.transform(t)) has the components of t and the tag P;
\* for a quantity u tagged with the parent of P,
\* P.transform(P.inverse_transform(u)) has the components of u and the tag of
\* the parent.
C26_RoundTrips == BackAndForth /\ ForthAndBack

-----------------------------------------------------------------------------
(* The batch transforms against the single ones                            *)

\* the single static transform of element i of the batch w
single_of(op, source, target, w, i, ub) ==
  IF op = "transform_wrenches" THEN transform_wrench(source, target, w[i], ub)
  ELSE transform_twist(source, target, w[i], ub)

AllTagged(w, source) == \A i \in 1..Len(w) : w[i].pose = source

\* C27: a batch transform of a non-empty vector of wrenches or of twists, all
\* tagged source, ends as the single static transform of its elements ends,
\* and when it returns, the result has the length of the input and element i
\* is the single static transform of w[i], components and tag; for an empty
\* input the result is cleared and returned, no frame is checked and the
\* resolver is not called.
C27_BatchIsElementwise ==
  (call.op \in {"transform_wrenches", "transform_twists"}) =>
    LET source == call.args[1]
        target == call.args[2]
        w      == call.args[3]
    IN  IF w = <<>>
        THEN call.out = Batch("ok", <<>>, FALSE)
        ELSE AllTagged(w, source) =>
               \E ub \in NoCommonOutcomes :
                 /\ call.out.resolved
                 /\ call.out.status = single_of(call.op, source, target, w, 1, ub).status
                 /\ call.out.status = "ok" =>
                      /\ Len(call.out.result) = Len(w)
                      /\ \A i \in 1..Len(w) :
                           Returned(call.out.result[i])
                             = single_of(call.op, source, target, w, i, ub)

\* a batch of two or more wrenches, all tagged source, has been transformed
\* between two different frames into a result vector that held something else
C27_Witness ==
  /\ call.op = "transform_wrenches"
  /\ call.out.status = "ok"
  /\ Len(call.args[3]) > 1
  /\ AllTagged(call.args[3], call.args[1])
  /\ call.args[1] # call.args[2]
  /\ call.args[4] # <<>>
  /\ call.out.result[2].bottom # call.args[3][2].bottom

-----------------------------------------------------------------------------
(* The frame check of the instance transforms and the allocation of the    *)
(* frame                                                                   *)

\* pose = shared_from_this(), which throws bad_weak_ptr for a frame that no
\* shared handle holds; the catch block prints and leaves pose null
shared_from_this(f, shared) == IF shared THEN f ELSE Global

\* POSE3::transform(const VECTOR3&) const on a frame that a shared handle
\* holds or not
alloc_transform_vector(f, v, shared, nexcept) ==
  IF inst_mismatch(nexcept, shared_from_this(f, shared), v.pose)
  THEN Failed("FrameException")
  ELSE Returned(Vector(rpose[f], QuatRotate(q[f], v.v)))

\* POSE3::transform(const POINT3&) const on a frame that a shared handle
\* holds or not
alloc_transform_point(f, v, shared, nexcept) ==
  IF inst_mismatch(nexcept, shared_from_this(f, shared), v.pose)
  THEN Failed("FrameException")
  ELSE Returned(Point(rpose[f], Add3(QuatRotate(q[f], v.v), x[f])))

\* the tags a quantity can carry: a tag is a shared handle, so no quantity is
\* tagged with a frame that no shared handle holds
TagsFor(f, shared) == IF shared THEN Refs ELSE Refs \ {f}

DoAllocTransformVector ==
  /\ Idle
  /\ \E f \in Live, shared \in BOOLEAN, v \in VectorsIn :
       \E pose \in TagsFor(f, shared) :
         Called("alloc_transform_vector", <<f, Vector(pose, v), shared>>,
                alloc_transform_vector(f, Vector(pose, v), shared, NEXCEPT))

DoAllocTransformPoint ==
  /\ Idle
  /\ \E f \in Live, shared \in BOOLEAN, v \in PointsIn :
       \E pose \in TagsFor(f, shared) :
         Called("alloc_transform_point", <<f, Point(pose, v), shared>>,
                alloc_transform_point(f, Point(pose, v), shared, NEXCEPT))

NextAlloc ==
  \/ DoAllocTransformVector
  \/ DoAllocTransformPoint
  \/ Return

SpecAlloc == InitInstance /\ [][NextAlloc]_vars

AllocOps == {"alloc_transform_vector", "alloc_transform_point"}

\* C28: in the build with the frame checks, P.transform(v) of a vector or a
\* point returns only if v is tagged P, and on a frame P that no shared handle
\* holds a quantity tagged with the global frame is rejected with
\* FrameException.
C28_GuardIgnoresAllocation ==
  (call.op \in AllocOps /\ ~NEXCEPT) =>
    /\ call.out.status = "ok" => call.args[2].pose = call.args[1]
    /\ (~call.args[3] /\ call.args[2].pose = Global) =>
         call.out.status = "FrameException"

-----------------------------------------------------------------------------
(* SPARITH::concat of a vector with a force or a momentum                  *)

\* VECTORN::resize(n): the vector has n entries afterwards; it keeps the
\* entries it held where the storage is reused (kept), and holds whatever the
\* storage holds (fill) elsewhere
resize(v, n, kept, fill) ==
  [i \in 1..n |-> IF kept /\ i <= Len(v) THEN v[i] ELSE fill]

\* VECTORN::set_sub_vec(start, v): the entries from start on become those of v
set_sub_vec(result, start, v) ==
  [i \in 1..Len(result) |->
     IF i > start /\ i <= start + Len(v) THEN v[i - start] ELSE result[i]]

\* SPARITH::concat(const VECTORN&, const SFORCE&, VECTORN&)
concat_force(v, w, result, kept, fill) ==
  LET r0 == resize(result, Len(v) + 6, kept, fill)
      r1 == set_sub_vec(r0, 0, v)
      r2 == set_sub_vec(r1, Len(v) + 0, w.top)
  IN  set_sub_vec(r2, Len(v) + 3, w.bottom)

\* SPARITH::concat(const VECTORN&, const SMOMENTUM&, VECTORN&)
concat_momentum(v, w, result, kept, fill) ==
  LET r0 == resize(result, Len(v) + 6, kept, fill)
      r1 == set_sub_vec(r0, 0, r0)
      r2 == set_sub_vec(r1, Len(v) + 0, w.top)
  IN  set_sub_vec(r2, Len(v) + 3, w.bottom)

\* the vectors v handed to concat, and what result holds before the call
ConcatVectorsIn == { <<>>, <<4>>, <<4, 5>> }

ConcatResultsIn == { <<>>, <<8>>, <<8, 8, 8, 8, 8, 8, 8, 8, 8>> }

\* what fresh storage may hold
Fills == {0, 9}

ConcatForce(v, w, result, kept, fill) ==
  Called("concat_force", <<v, w, result>>,
         Returned(concat_force(v, w, result, kept, fill)))

ConcatMomentum(v, w, result, kept, fill) ==
  Called("concat_momentum", <<v, w, result>>,
         Returned(concat_momentum(v, w, result, kept, fill)))

DoConcatForce ==
  /\ Idle
  /\ \E v \in ConcatVectorsIn, w \in SVecsIn, pose \in Refs,
        result \in ConcatResultsIn, kept \in BOOLEAN, fill \in Fills :
       ConcatForce(v, SVec(pose, w.top, w.bottom), result, kept, fill)

DoConcatMomentum ==
  /\ Idle
  /\ \E v \in ConcatVectorsIn, w \in SVecsIn, pose \in Refs,
        result \in ConcatResultsIn, kept \in BOOLEAN, fill \in Fills :
       ConcatMomentum(v, SVec(pose, w.top, w.bottom), result, kept, fill)

NextConcat ==
  \/ DoConcatForce
  \/ DoConcatMomentum
  \/ Return

SpecConcat == InitHold /\ [][NextConcat]_vars

\* C29: concat(v, w, result), for a force and for a momentum w, returns v
\* followed by the six entries of w, upper 3-vector first, whatever result
\* held before.
C29_ConcatAppendsSix ==
  (call.op \in {"concat_force", "concat_momentum"}) =>
    call.out.val = call.args[1] \o call.args[2].top \o call.args[2].bottom

-----------------------------------------------------------------------------
(* SPARSEMATRIXN: compressed rows, operator+= and operator-=               *)

\* the largest number of rows and of columns of the matrices
MaxDim == 2

\* the largest number of entries stored in the right operand
MaxStored == 2

\* entry k of an array, counted from 0 as the code counts
At(a, k) == a[k + 1]

\* a sparse matrix: _rows, _columns, _ptr, _indices, _data
Sparse(rows, columns, ptr, indices, data) ==
  [rows |-> rows, columns |-> columns, ptr |-> ptr, indices |-> indices, data |-> data]

\* the cells (r, s) of an m by n matrix
Cells(m, n) == (0..(m - 1)) \X (0..(n - 1))

\* for (unsigned s=0; s< n; s++) if (values.find(make_pair(r, s)) != values.end())
\* over the rows from cell on: the column indices and the data, row by row;
\* the map is ordered by row, then by column
RECURSIVE set_from(_, _, _, _, _, _)
set_from(m, n, values, cell, indices, data) ==
  IF cell = m * n THEN <<indices, data>>
  ELSE LET r == cell \div n
           s == cell % n
       IN  IF <<r, s>> \in DOMAIN values
           THEN set_from(m, n, values, cell + 1, Append(indices, s),
                         Append(data, values[<<r, s>>]))
           ELSE set_from(m, n, values, cell + 1, indices, data)

\* _ptr[0] = 0; _ptr[r+1] = j, the number of entries in the rows up to r
RECURSIVE set_ptr(_, _, _, _)
set_ptr(m, n, values, r) ==
  IF r = 0 THEN <<0>>
  ELSE LET before == set_ptr(m, n, values, r - 1)
       IN  Append(before, At(before, r - 1)
                    + Cardinality({s \in 0..(n - 1) : <<r - 1, s>> \in DOMAIN values}))

\* SPARSEMATRIXN::set(m, n, values)
set(m, n, values) ==
  LET filled == set_from(m, n, values, 0, <<>>, <<>>)
  IN  Sparse(m, n, set_ptr(m, n, values, m), filled[1], filled[2])

\* for (unsigned k=_ptr[i]; k< _ptr[i+1]; k++) if (_indices[k] == j): the
\* first such k, or -1 where (i,j) is not stored
find(M, i, j) ==
  LET ks == {k \in At(M.ptr, i)..(At(M.ptr, i + 1) - 1) : At(M.indices, k) = j}
  IN  IF ks = {} THEN -1 ELSE CHOOSE k \in ks : \A l \in ks : k <= l

\* SPARSEMATRIXN::to_dense(m): zero but for the stored entries, a later one of
\* a cell overwriting an earlier one
to_dense(M) ==
  [c \in Cells(M.rows, M.columns) |->
     LET ks == {k \in At(M.ptr, c[1])..(At(M.ptr, c[1] + 1) - 1) : At(M.indices, k) = c[2]}
     IN  IF ks = {} THEN 0 ELSE At(M.data, CHOOSE k \in ks : \A l \in ks : l <= k)]

\* nz: the number of cells stored in this or in m
count_nz(A, m) ==
  Cardinality({c \in Cells(A.rows, A.columns) :
                 find(A, c[1], c[2]) >= 0 \/ find(m, c[1], c[2]) >= 0})

\* the in-place loop whose counter r advances on the cells stored in m
RECURSIVE in_place_counting_m(_, _, _, _, _, _)
in_place_counting_m(A, m, sign, cell, r, data) ==
  IF cell = A.rows * A.columns THEN data
  ELSE LET i == cell \div A.columns
           j == cell % A.columns
           k == find(m, i, j)
       IN  in_place_counting_m(A, m, sign, cell + 1,
             IF k >= 0 THEN r + 1 ELSE r,
             IF k >= 0 /\ r < Len(data)
               THEN [data EXCEPT ![r + 1] = @ + sign * At(m.data, k)] ELSE data)

\* the in-place loop over the cells from cell on: _data[r] += m._data[k] (or
\* -=) where (i,j) is stored in m, and r++ where it is stored in this
RECURSIVE in_place(_, _, _, _, _, _)
in_place(A, m, sign, cell, r, data) ==
  IF cell = A.rows * A.columns THEN data
  ELSE LET i == cell \div A.columns
           j == cell % A.columns
           found == find(A, i, j) >= 0
           k == find(m, i, j)
       IN  in_place(A, m, sign, cell + 1,
             IF found THEN r + 1 ELSE r,
             IF k >= 0 /\ r < Len(data)
               THEN [data EXCEPT ![r + 1] = @ + sign * At(m.data, k)] ELSE data)

\* nptr[0] = 0; nptr[i+1] = nptr[i], incremented for every cell of row i
\* stored in this or in m
RECURSIVE rebuild_ptr(_, _, _)
rebuild_ptr(A, m, i) ==
  IF i = 0 THEN <<0>>
  ELSE LET before == rebuild_ptr(A, m, i - 1)
       IN  Append(before, At(before, i - 1)
                    + Cardinality({j \in 0..(A.columns - 1) :
                                     find(A, i - 1, j) >= 0 \/ find(m, i - 1, j) >= 0}))

\* the loop that sets up nindices and ndata, over the cells from cell on
RECURSIVE rebuild_from(_, _, _, _, _, _)
rebuild_from(A, m, sign, cell, nindices, ndata) ==
  IF cell = A.rows * A.columns THEN <<nindices, ndata>>
  ELSE LET i  == cell \div A.columns
           j  == cell % A.columns
           kA == find(A, i, j)
           km == find(m, i, j)
       IN  IF kA >= 0 /\ km >= 0
           THEN rebuild_from(A, m, sign, cell + 1, Append(nindices, At(A.indices, kA)),
                             Append(ndata, At(A.data, kA) + sign * At(m.data, km)))
           ELSE IF kA >= 0
           THEN rebuild_from(A, m, sign, cell + 1, Append(nindices, At(A.indices, kA)),
                             Append(ndata, At(A.data, kA)))
           ELSE IF km >= 0
           THEN rebuild_from(A, m, sign, cell + 1, Append(nindices, At(m.indices, km)),
                             Append(ndata, sign * At(m.data, km)))
           ELSE rebuild_from(A, m, sign, cell + 1, nindices, ndata)

\* the outcome of operator+= and operator-=: the status and this afterwards
Accumulated(status, A) == [status |-> status, A |-> A]

\* SPARSEMATRIXN::operator+= (sign 1) and SPARSEMATRIXN::operator-= (sign -1)
accumulate(A, m, sign) ==
  IF A.rows # m.rows \/ A.columns # m.columns THEN Accumulated("MissizeException", A)
  ELSE IF count_nz(A, m) = At(A.ptr, A.rows)
  THEN Accumulated("ok", [A EXCEPT !.data = in_place(A, m, sign, 0, 0, A.data)])
  ELSE LET rebuilt == rebuild_from(A, m, sign, 0, <<>>, <<>>)
       IN  Accumulated("ok", Sparse(A.rows, A.columns, rebuild_ptr(A, m, A.rows),
                                    rebuilt[1], rebuilt[2]))

\* SPARSEMATRIXN::operator+=(const SPARSEMATRIXN& m)
operator_plus_eq(A, m) == accumulate(A, m, 1)

\* SPARSEMATRIXN::operator-=(const SPARSEMATRIXN& m)
operator_minus_eq(A, m) == accumulate(A, m, -1)

\* the maps handed to set(): the cells in S, each with a value of its own,
\* those of the right operand ten times those of the left
ValuesOn(S, n, unit) == [c \in S |-> unit * (1 + c[1] * n + c[2])]

Dims == (1..MaxDim) \X (1..MaxDim)

PlusEq(A, m) == Called("operator+=", <<A, m>>, operator_plus_eq(A, m))

MinusEq(A, m) == Called("operator-=", <<A, m>>, operator_minus_eq(A, m))

DoPlusEq ==
  /\ Idle
  /\ \E dA \in Dims, dm \in Dims :
       \E SA \in SUBSET Cells(dA[1], dA[2]),
          Sm \in {S \in SUBSET Cells(dm[1], dm[2]) : Cardinality(S) <= MaxStored} :
         PlusEq(set(dA[1], dA[2], ValuesOn(SA, dA[2], 1)),
                set(dm[1], dm[2], ValuesOn(Sm, dm[2], 10)))

DoMinusEq ==
  /\ Idle
  /\ \E dA \in Dims, dm \in Dims :
       \E SA \in SUBSET Cells(dA[1], dA[2]),
          Sm \in {S \in SUBSET Cells(dm[1], dm[2]) : Cardinality(S) <= MaxStored} :
         MinusEq(set(dA[1], dA[2], ValuesOn(SA, dA[2], 1)),
                 set(dm[1], dm[2], ValuesOn(Sm, dm[2], 10)))

\* no frame has been constructed
InitSparse ==
  /\ q = <<>>
  /\ x = <<>>
  /\ rpose = <<>>
  /\ NEXCEPT = FALSE
  /\ call = NoCall

NextSparse ==
  \/ DoPlusEq
  \/ DoMinusEq
  \/ Return

SpecSparse == InitSparse /\ [][NextSparse]_vars

\* the row pointers of M start at 0, never decrease and end at the number of
\* stored entries
WellFormed(M) ==
  /\ Len(M.ptr) = M.rows + 1
  /\ At(M.ptr, 0) = 0
  /\ \A i \in 0..(M.rows - 1) : At(M.ptr, i) <= At(M.ptr, i + 1)
  /\ At(M.ptr, M.rows) = Len(M.data)
  /\ Len(M.indices) = Len(M.data)

\* C30: for sparse matrices A and B built by set(), A += B and A -= B with
\* equal dimensions leave A representing the entrywise sum and difference,
\* to_dense(A') = to_dense(A) + to_dense(B) and to_dense(A) - to_dense(B), on
\* the in-place path and on the rebuild path, with ptr[0] = 0, ptr
\* non-decreasing and ptr[rows] the number of stored entries; with unequal
\* dimensions they fail with MissizeException and leave A as it was.
C30_SparseAccumulate ==
  (call.op \in {"operator+=", "operator-="}) =>
    LET A    == call.args[1]
        B    == call.args[2]
        sign == IF call.op = "operator+=" THEN 1 ELSE -1
    IN  IF A.rows # B.rows \/ A.columns # B.columns
        THEN call.out = Accumulated("MissizeException", A)
        ELSE /\ call.out.status = "ok"
             /\ call.out.A.rows = A.rows
             /\ call.out.A.columns = A.columns
             /\ WellFormed(call.out.A)
             /\ to_dense(call.out.A)
                  = [c \in Cells(A.rows, A.columns) |->
                       to_dense(A)[c] + sign * to_dense(B)[c]]

\* A -= B has run in place: B stores fewer cells than A, all of them stored
\* in A, and not the first cell of A
C30_Witness ==
  /\ call.op = "operator-="
  /\ call.out.status = "ok"
  /\ Len(call.args[2].data) > 0
  /\ Len(call.args[1].data) > Len(call.args[2].data)
  /\ call.out.A.ptr = call.args[1].ptr
  /\ call.out.A.indices = call.args[1].indices
  /\ At(call.out.A.data, 0) = At(call.args[1].data, 0)
  /\ call.out.A.data # call.args[1].data

====
